---- MODULE Spec2Model ----
(***************************************************************************)
(* Element waits (sel4.core.page_actions), the test-wide deadline check    *)
(* (sel4.core.shared), the retry wrapper (sel4.utils.retries) and the      *)
(* shadow-DOM resolver (sel4.core.shadow).                                 *)
(*                                                                         *)
(* Time is the wall clock in milliseconds.  It advances only while a       *)
(* remote call is in flight and while the thread sleeps, in multiples of   *)
(* Tick.  One operation runs at a time on the calling thread.              *)
(*                                                                         *)
(* Module-level names are taken to resolve to the repository's             *)
(* definitions (get_exception_message, settings); what a function does     *)
(* with the objects its names are bound to is modelled as written.         *)
(***************************************************************************)
EXTENDS Integers, Sequences, FiniteSets, TLC

\* ------------------------------------------------------------------ bounds
Tick == 100
MaxLatency == 2
MaxTimeout == 2
MaxTimeLimit == 2
MaxStart == 2
MaxWaitStart == 0
MaxTries == 3
MaxDelay == 2
MaxBackoff == 2
MaxShadowTimeout == 2
ScenarioTimeout == 5
MaxSleepTicks == 12
MaxSteps == 2
MaxMultiplier == 2

\* --------------------------------------------------------------- constants
MsPerSecond == 1000
ShortSleepMs == 400
SleepStepMs == 200
SleepStepsPerSecond == 5
RangeFactor == 10
SleepPerSecond == 200
_MAX_WAIT == 1073741823
SMALL_TIMEOUT == 6
NearZeroMs == 100
RootSleepMs == 2000
PollSleepMs == 200
AttemptsPerSecond == 4
ReadyErrorSleepMs == 30
ReadyDoneSleepMs == 10
LARGE_TIMEOUT == 30

VARIABLES
    now,            \* time.time() * 1000
    time_limit,     \* runtime_store[time_limit], seconds; 0 stands for None
    start_time_ms,  \* runtime_store[start_time_ms]
    pc,             \* position of the calling thread
    w,              \* locals and observations of the element wait in progress
    rt,             \* arguments, locals and observations of the retry call in progress
    sh,             \* arguments, locals and observations of the shadow resolution in progress
    sl,             \* argument, locals and observations of the harness sleep in progress
    tr,             \* argument, locals and result of the XPath translation in progress
    rs,             \* argument, locals and observations of the readyState wait in progress
    hs              \* the test class: arguments and effects of setup and of the call made

vars == <<now, time_limit, start_time_ms, pc, w, rt, sh, sl, tr, rs, hs>>

Conditions == {"Present", "Absent", "Visible", "NotVisible", "Interactable", "Disabled"}

Latencies == {k * Tick : k \in 0..MaxLatency}

\* The calls made of the waits: every wait with a short timeout, and the
\* Visible wait with the longer timeout of a page that is re-rendering.
WaitCalls ==
    (Conditions \X (0..MaxTimeout)) \cup {<<"Visible", ScenarioTimeout>>}

\* What the remote session answers during one probe: the element lookup,
\* then is_displayed, the disabled-attribute script and is_enabled on the
\* element found.  "-" marks a query the answer to an earlier one rules out.
\* `disabled` is whether the element found and displayed carries the
\* disabled attribute in the page; `attr` is what the session answers to the
\* script has_attribute sends, which is sent without the element.  Where
\* the wait does not come to ask is_enabled, `enabled` is what the element
\* would report.
Responses ==
    {[find |-> f, displayed |-> "-", disabled |-> "-", attr |-> "-", enabled |-> "-"] :
        f \in {"NoSuchElementException", "NoSuchWindowException"}}
    \cup
    {[find |-> "element", displayed |-> d, disabled |-> "-", attr |-> "-", enabled |-> "-"] :
        d \in {"False", "StaleElementReferenceException", "NoSuchWindowException"}}
    \cup
    {[find |-> "element", displayed |-> "True", disabled |-> h, attr |-> a, enabled |-> e] :
        h \in {"True", "False"},
        a \in {"True", "False", "JavascriptException", "NoSuchWindowException"},
        e \in {"True", "False"}}
    \cup
    {[find |-> "element", displayed |-> "True", disabled |-> h, attr |-> "False",
      enabled |-> "StaleElementReferenceException"] : h \in {"True", "False"}}

NoResponse ==
    [find |-> "-", displayed |-> "-", disabled |-> "-", attr |-> "-", enabled |-> "-"]

\* The part of an answer a wait's probe can come to see: Present and Absent
\* only look the element up, Visible and NotVisible also ask is_displayed.
Observed(cond, r) ==
    IF cond \in {"Present", "Absent"}
    THEN [NoResponse EXCEPT !.find = r.find]
    ELSE IF cond \in {"Visible", "NotVisible"}
    THEN [NoResponse EXCEPT !.find = r.find, !.displayed = r.displayed]
    ELSE r

\* The answers a probe of the wait `cond` can tell apart.
ObservedResponses(cond) == {Observed(cond, r) : r \in Responses}

\* -------------------------------------------------------- deadline check
check_if_time_limit_exceededNever(now_ms, limit, start) == "pass"

\* check_if_time_limit_exceeded: "pass" when the store holds no limit or the
\* limit has not passed; otherwise the exception the function leaves with.
\* Past the limit it evaluates int(time_limit) on the StashKey `time_limit`
\* (not on the value _time_limit read from the store): int() of a StashKey
\* is a TypeError, raised before the TimeLimitExceededException is built.
check_if_time_limit_exceeded(now_ms, limit, start) ==
    IF limit # 0
    THEN IF now_ms > start + limit * MsPerSecond
         THEN "TypeError"
         ELSE "pass"
    ELSE "pass"

\* ------------------------------------------------------------- one probe
has_attributeNever(a) ==
    IF a \in {"True", "False"} THEN "False" ELSE "TypeError"

\* has_attribute: the script's answer, or TypeError when the script raises,
\* because `except WebDriverException | JavascriptException` names a
\* types.UnionType, which no except clause can match against.
has_attribute(a) ==
    IF a \in {"True", "False"} THEN a ELSE "TypeError"

\* The try body of each wait: "return" or the exception it raises, with the
\* flags it sets on the way.  "soft" is the in-line still-present /
\* still-visible branch of the Absent and NotVisible waits.
TryBody(cond, r) ==
    LET found == r.find = "element"
        shown == found /\ r.displayed = "True"
        res(o, p, d) == [out |-> o, present |-> p, displayed |-> d]
    IN  CASE cond = "Present" ->
                IF found THEN res("return", FALSE, FALSE) ELSE res(r.find, FALSE, FALSE)
          [] cond = "Absent" ->
                IF found THEN res("soft", FALSE, FALSE) ELSE res(r.find, FALSE, FALSE)
          [] cond = "Visible" ->
                IF ~found THEN res(r.find, FALSE, FALSE)
                ELSE IF r.displayed = "True" THEN res("return", TRUE, FALSE)
                ELSE IF r.displayed = "False" THEN res("ElementNotVisibleException", TRUE, FALSE)
                ELSE res(r.displayed, TRUE, FALSE)
          [] cond = "NotVisible" ->
                IF ~found THEN res(r.find, FALSE, FALSE)
                ELSE IF r.displayed = "True" THEN res("soft", FALSE, FALSE)
                ELSE IF r.displayed = "False" THEN res("return", FALSE, FALSE)
                ELSE res(r.displayed, FALSE, FALSE)
          [] cond = "Interactable" ->
                IF ~found THEN res(r.find, FALSE, FALSE)
                ELSE IF r.displayed = "False" THEN res("ElementNotVisibleException", TRUE, FALSE)
                ELSE IF ~shown THEN res(r.displayed, TRUE, FALSE)
                ELSE IF has_attribute(r.attr) = "TypeError" THEN res("TypeError", TRUE, TRUE)
                ELSE IF has_attribute(r.attr) = "True" THEN res("ElementNotInteractableException", TRUE, TRUE)
                ELSE IF r.enabled = "True" THEN res("return", TRUE, TRUE)
                ELSE IF r.enabled = "False" THEN res("ElementNotInteractableException", TRUE, TRUE)
                ELSE res(r.enabled, TRUE, TRUE)
          [] cond = "Disabled" ->
                IF ~found THEN res(r.find, FALSE, FALSE)
                ELSE IF r.displayed = "False" THEN res("ElementNotVisibleException", TRUE, FALSE)
                ELSE IF ~shown THEN res(r.displayed, TRUE, FALSE)
                ELSE IF has_attribute(r.attr) = "TypeError" THEN res("TypeError", TRUE, TRUE)
                ELSE IF has_attribute(r.attr) = "True" THEN res("return", TRUE, TRUE)
                ELSE IF r.enabled = "True" THEN res("ValueError", TRUE, TRUE)
                ELSE IF r.enabled = "False" THEN res("return", TRUE, TRUE)
                ELSE res(r.enabled, TRUE, TRUE)

CaughtWithoutStale(cond) ==
    CASE cond = "Present" -> {"NoSuchElementException"}
      [] cond \in {"Absent", "NotVisible"} -> {}
      [] cond = "Visible" -> {"NoSuchElementException", "ElementNotVisibleException"}
      [] cond = "Interactable" ->
            {"NoSuchElementException", "ElementNotVisibleException",
             "ElementNotInteractableException"}
      [] cond = "Disabled" ->
            {"NoSuchElementException", "ElementNotVisibleException", "ValueError"}

\* The except clauses of each wait: the exceptions a wait absorbs as a
\* reason to keep polling.
Caught(cond) ==
    CASE cond = "Present" -> {"NoSuchElementException"}
      [] cond = "Absent" -> {}
      [] cond = "Visible" ->
            {"NoSuchElementException", "StaleElementReferenceException",
             "ElementNotVisibleException"}
      [] cond = "NotVisible" -> {}
      [] cond = "Interactable" ->
            {"NoSuchElementException", "StaleElementReferenceException",
             "ElementNotVisibleException", "ElementNotInteractableException"}
      [] cond = "Disabled" ->
            {"NoSuchElementException", "StaleElementReferenceException",
             "ElementNotVisibleException", "ValueError"}

\* What a try statement makes of the outcome of its body:
\*   "return"  the wait returns (element or True),
\*   "soft"    an except clause (or the in-line branch) keeps polling,
\*   otherwise the exception that leaves the wait.
\* Absent returns True from its NoSuchElementException clause.  NotVisible
\* has the single clause `except NoSuchElementException |
\* StaleElementReferenceException`: matching any exception against that
\* union raises TypeError in place of the exception being handled.
Handle(cond, out) ==
    IF out \in {"return", "soft"} THEN out
    ELSE IF cond = "NotVisible" THEN "TypeError"
    ELSE IF cond = "Absent" /\ out = "NoSuchElementException" THEN "return"
    ELSE IF out \in Caught(cond) THEN "soft"
    ELSE out

\* Whether a probe comes to call webelement.is_enabled(): only in the
\* Interactable and Disabled waits, once the element is found and displayed
\* and has_attribute has returned false.
is_enabledCalled(cond, r) ==
    /\ cond \in {"Interactable", "Disabled"}
    /\ r.find = "element"
    /\ r.displayed = "True"
    /\ has_attribute(r.attr) = "False"

QueriedHandleHeld(cond, r, held, fresh) ==
    IF cond \in {"Present", "Absent"} THEN 0
    ELSE IF r.find = "element" THEN fresh ELSE held

\* The element handle that the is_displayed and is_enabled queries of a probe
\* are sent to: `webelement`, bound by the find_element call that opens the
\* try body; no query is made when that call raises.  `held` is the handle
\* the name was bound to before the probe, `fresh` the one this probe's
\* lookup returns; 0 is no handle.
QueriedHandle(cond, r, held, fresh) ==
    IF cond \in {"Present", "Absent"} THEN 0
    ELSE IF r.find = "element" THEN fresh ELSE 0

\* Whether the session raised NoSuchWindowException to a call this wait's
\* probe makes (the lookup, is_displayed, or the disabled-attribute script).
SessionError(cond, r) ==
    \/ r.find = "NoSuchWindowException"
    \/ /\ cond \in {"Visible", "NotVisible", "Interactable", "Disabled"}
       /\ r.displayed = "NoSuchWindowException"
    \/ /\ cond \in {"Interactable", "Disabled"}
       /\ r.attr = "NoSuchWindowException"

\* The state named by the TimeoutException raised after the loop.
TimeoutState(cond, is_present, is_stale, is_displayed) ==
    CASE cond = "Present" -> "not present"
      [] cond = "Absent" -> "present"
      [] cond = "NotVisible" -> "visible"
      [] cond = "Visible" ->
            IF ~is_present THEN "not present"
            ELSE IF is_stale THEN "stale" ELSE "hidden"
      [] cond = "Interactable" ->
            IF ~is_present THEN "not present"
            ELSE IF is_stale THEN "stale"
            ELSE IF ~is_displayed THEN "hidden" ELSE "disabled"
      [] cond = "Disabled" ->
            IF ~is_present THEN "not present"
            ELSE IF is_stale THEN "stale"
            ELSE IF ~is_displayed THEN "hidden" ELSE "enabled"

\* get_exception_message(name, how, selector, timeout): the state phrase of
\* the text it returns, as a set that is empty when it returns None.  Only
\* the branch for "not present" is left of the seven element states (the
\* others are commented out), so every other name falls off the end of the
\* function.
get_exception_message(name) ==
    IF name = "not present" THEN {"not present"} ELSE {}

\* The state named by the TimeoutException of the copy of each wait in
\* sel4.core.helpers.element_actions, whose loops are those of
\* sel4.core.page_actions line for line and whose messages are written out
\* in place.
HelpersTimeoutState(cond, is_present, is_stale, is_displayed) ==
    CASE cond = "Present" -> "not present"
      [] cond = "Absent" -> "still present"
      [] cond = "NotVisible" -> "still visible"
      [] cond = "Visible" ->
            IF ~is_present THEN "still present"
            ELSE IF is_stale THEN "not present on DOM (stale)" ELSE "hidden"
      [] cond = "Interactable" ->
            IF ~is_present THEN "not present"
            ELSE IF is_stale THEN "not present on DOM (stale)"
            ELSE IF ~is_displayed THEN "hidden" ELSE "disabled"
      [] cond = "Disabled" ->
            IF ~is_present THEN "not present"
            ELSE IF is_stale THEN "not present on DOM (stale)"
            ELSE IF ~is_displayed THEN "hidden" ELSE "still enabled"

\* range(int(timeout * 10))
RangeLen(timeout) == timeout * RangeFactor

\* stop_ms = start_ms + timeout * 1000.0
StopMs(start_ms, timeout) == start_ms + timeout * MsPerSecond

StopReachedStrict(now_ms, stop_ms) == now_ms > stop_ms

\* `if now_ms >= stop_ms: break`
StopReached(now_ms, stop_ms) == now_ms >= stop_ms

\* state_message: time.sleep(to * 0.2), in milliseconds
SleepMs(to) == to * SleepPerSecond

NoRetry ==
    [tries |-> 0, delay |-> 0, timeout_ms |-> 0, max_delay |-> {}, backoff |-> 0,
     jitter |-> <<0>>, _tries |-> 0, _delay |-> 0, attempt_number |-> 0,
     start_time |-> 0, calls |-> 0, sleeps |-> 0, lastSlept |-> 0, lastElapsed |-> 0,
     last |-> "-", outcome |-> "-", raisedBy |-> 0]

NoShadow ==
    [selector |-> <<>>, timeout |-> {}, timeout_ms |-> 0, must_be_visible |-> FALSE,
     native |-> FALSE, latency |-> 0, selectors |-> <<>>, part |-> 0, chain |-> 0,
     is_present |-> FALSE, i |-> 0, start_ms |-> 0, remote_calls |-> 0, reads |-> 0,
     root_sleeps |-> 0, lookups |-> 0, found_here |-> FALSE, late |-> FALSE,
     outcome |-> "-", error |-> "-"]

NoSleep ==
    [seconds_ms |-> 0, start_ms |-> 0, stop_ms |-> 0, x |-> 0, checks |-> 0,
     slept_ms |-> 0, outcome |-> "-"]

NoTranslation ==
    [how |-> "-", selector |-> <<>>, input |-> <<>>, group |-> {}, xpath |-> <<>>,
     position |-> 0, pending |-> FALSE, css |-> <<>>, outcome |-> "-"]

NoHarness ==
    [limit |-> {}, store |-> "absent", none_key |-> FALSE, _time_limit |-> "None",
     setup |-> "-", check |-> "-", call |-> "-", timeout |-> {}, multiplier |-> 0,
     computed |-> 0, loop_timeout |-> {}]

NoReady ==
    [timeout |-> 0, t_limit |-> 0, start_ms |-> 0, stop_ms |-> 0, x |-> 0, checks |-> 0,
     probes |-> 0, sleeps |-> 0, last |-> "-", exit |-> "-", outcome |-> "-"]

NoWait ==
    [cond |-> "-", timeout |-> 0, start_ms |-> 0, stop_ms |-> 0, x |-> 0,
     is_present |-> FALSE, is_stale |-> FALSE, is_displayed |-> FALSE,
     probes |-> 0, sleeps |-> 0, checks |-> 0, last |-> "-", lastLatency |-> 0,
     sessionError |-> FALSE, exit |-> "-", outcome |-> "-", state |-> "-",
     helpers_state |-> "-", message |-> {}, resp |-> NoResponse, found |-> FALSE,
     handle |-> 0, queried |-> 0, enabled_queried |-> FALSE]

\* A wait is called at one of the first instants of the test; the Deadline
\* is counted from start_time_ms, so the limit drawn places it before, at or
\* after the wait's stop time.
Init ==
    /\ now \in {k * Tick : k \in 0..MaxWaitStart}
    /\ time_limit \in 0..MaxTimeLimit
    /\ start_time_ms = 0
    /\ pc = "idle"
    /\ w = NoWait
    /\ rt = NoRetry
    /\ sh = NoShadow
    /\ sl = NoSleep
    /\ tr = NoTranslation
    /\ rs = NoReady
    /\ hs = NoHarness

\* A wait is called: the locals before the loop.
StartWait(cond, timeout) ==
    /\ pc = "idle"
    /\ w' = [NoWait EXCEPT !.cond = cond, !.timeout = timeout,
                           !.start_ms = now, !.stop_ms = StopMs(now, timeout)]
    /\ pc' = "loop"
    /\ UNCHANGED <<now, time_limit, start_time_ms, rt, sh, sl, tr, rs, hs>>

\* The loop is over (range exhausted): raise TimeoutException.
LoopExit ==
    /\ pc = "loop"
    /\ w.x >= RangeLen(w.timeout)
    /\ w' = [w EXCEPT !.outcome = "TimeoutException", !.exit = "range",
                      !.state = TimeoutState(w.cond, w.is_present, w.is_stale, w.is_displayed),
                      !.helpers_state = HelpersTimeoutState(w.cond, w.is_present,
                                                            w.is_stale, w.is_displayed),
                      !.message = get_exception_message(
                          TimeoutState(w.cond, w.is_present, w.is_stale, w.is_displayed))]
    /\ pc' = "done"
    /\ UNCHANGED <<now, time_limit, start_time_ms, rt, sh, sl, tr, rs, hs>>

CheckTimeLimitRestarting ==
    /\ pc = "loop"
    /\ w.x < RangeLen(w.timeout)
    /\ pc' = "probe"
    /\ w' = [w EXCEPT !.checks = w.checks + 1]
    /\ start_time_ms' = now
    /\ UNCHANGED <<now, time_limit, rt, sh, sl, tr, rs, hs>>

\* Top of an iteration: check_if_time_limit_exceeded().
CheckTimeLimit ==
    /\ pc = "loop"
    /\ w.x < RangeLen(w.timeout)
    /\ LET c == check_if_time_limit_exceeded(now, time_limit, start_time_ms)
       IN  IF c = "pass"
           THEN /\ pc' = "probe"
                /\ w' = [w EXCEPT !.checks = w.checks + 1]
           ELSE /\ pc' = "done"
                /\ w' = [w EXCEPT !.checks = w.checks + 1, !.outcome = c, !.exit = "check"]
    /\ UNCHANGED <<now, time_limit, start_time_ms, rt, sh, sl, tr, rs, hs>>

\* The try statement of an iteration: one probe of the session, then return,
\* raise, break, or state_message's sleep and the next iteration.
Probe(r, lat) ==
    /\ pc = "probe"
    /\ LET b == TryBody(w.cond, r)
           h == Handle(w.cond, b.out)
           t == now + lat
           seen == [w EXCEPT !.probes = w.probes + 1,
                             !.last = b.out,
                             !.lastLatency = lat,
                             !.resp = Observed(w.cond, r),
                             !.found = w.found \/ r.find = "element",
                             !.handle = IF r.find = "element"
                                        THEN w.probes + 1 ELSE w.handle,
                             !.queried = QueriedHandle(w.cond, r, w.handle, w.probes + 1),
                             !.enabled_queried = is_enabledCalled(w.cond, r),
                             !.sessionError = SessionError(w.cond, r),
                             !.is_present = w.is_present \/ b.present,
                             !.is_displayed = w.is_displayed \/ b.displayed,
                             !.is_stale = w.is_stale \/
                                 (h = "soft" /\ b.out = "StaleElementReferenceException")]
       IN  IF h = "return"
           THEN /\ w' = [seen EXCEPT !.outcome = "Satisfied", !.exit = "return"]
                /\ now' = t
                /\ pc' = "done"
           ELSE IF h = "soft"
           THEN IF StopReached(t, w.stop_ms)
                THEN /\ w' = [seen EXCEPT !.outcome = "TimeoutException",
                                !.state = TimeoutState(seen.cond, seen.is_present,
                                                       seen.is_stale, seen.is_displayed),
                                !.helpers_state = HelpersTimeoutState(seen.cond,
                                    seen.is_present, seen.is_stale, seen.is_displayed),
                                !.message = get_exception_message(
                                    TimeoutState(seen.cond, seen.is_present,
                                                 seen.is_stale, seen.is_displayed)),
                                !.exit = "break"]
                     /\ now' = t
                     /\ pc' = "done"
                ELSE /\ w' = [seen EXCEPT !.sleeps = w.sleeps + 1, !.x = w.x + 1]
                     /\ now' = t + SleepMs(w.timeout)
                     /\ pc' = "loop"
           ELSE /\ w' = [seen EXCEPT !.outcome = h, !.exit = "raise"]
                /\ now' = t
                /\ pc' = "done"
    /\ UNCHANGED <<time_limit, start_time_ms, rt, sh, sl, tr, rs, hs>>

\* ------------------------------------------------------------ retry wrapper
\* Delays are held in milliseconds (the code holds seconds and sleeps them).
Min(a, b) == IF a <= b THEN a ELSE b

Tries == -1..MaxTries
Delays == {k * Tick : k \in 0..MaxDelay}
\* max_delay: {} is None, {d} a maximum of d
MaxDelays == {{}} \cup {{k * Tick} : k \in 1..MaxDelay}
Backoffs == 1..MaxBackoff
\* jitter: <<j>> a fixed number, <<lo, hi>> a range tuple
Jitters == {<<0>>, <<Tick>>, <<0, Tick>>}
TimeoutsMs == {MaxDelay * Tick, _MAX_WAIT}

\* What one call of func does: return, raise an exception of the configured
\* set, or raise another exception.
FuncResults == {"return", "matching", "other"}

CatchesAll(res) == res \in {"matching", "other"}

\* `except exceptions as e`
Catches(res) == res = "matching"

\* `_tries -= 1`
DecrementTries(t) == t - 1

TriesExhaustedEarly(t) == t <= 1

\* `if not _tries: raise e`
TriesExhausted(t) == t = 0

TimeoutNeverExceeded(elapsed_ms, timeout_ms) == FALSE

\* `if delay_since_first_attempt_ms > timeout_ms: raise e`
TimeoutExceeded(elapsed_ms, timeout_ms) == elapsed_ms > timeout_ms

\* random.uniform(*jitter) for a tuple, the number itself otherwise
JitterValues(jitter) ==
    IF Len(jitter) = 2
    THEN {j \in jitter[1]..jitter[2] : j % Tick = 0 \/ j = jitter[1] \/ j = jitter[2]}
    ELSE {jitter[1]}

ClampDelayNever(d, max_delay) == d

\* `if max_delay is not None: _delay = min(_delay, max_delay)`
ClampDelay(d, max_delay) ==
    IF max_delay # {} THEN Min(d, CHOOSE m \in max_delay : TRUE) ELSE d

NextDelayJitterFirst(d, backoff, j, max_delay) == ClampDelay((d + j) * backoff, max_delay)

\* `_delay *= backoff`, `_delay += jitter`, then the clamp
NextDelay(d, backoff, j, max_delay) == ClampDelay(d * backoff + j, max_delay)

RetryInit ==
    /\ now \in {k * Tick : k \in 0..MaxStart}
    /\ time_limit = 0
    /\ start_time_ms = 0
    /\ pc = "idle"
    /\ w = NoWait
    /\ rt = NoRetry
    /\ sh = NoShadow
    /\ sl = NoSleep
    /\ tr = NoTranslation
    /\ rs = NoReady
    /\ hs = NoHarness

\* __retry_internal is entered: the locals before the loop.
StartRetry(tries, delay, timeout_ms, max_delay, backoff, jitter) ==
    /\ pc = "idle"
    /\ rt' = [NoRetry EXCEPT !.tries = tries, !.delay = delay, !.timeout_ms = timeout_ms,
                             !.max_delay = max_delay, !.backoff = backoff, !.jitter = jitter,
                             !._tries = tries, !._delay = delay,
                             !.attempt_number = 1, !.start_time = now]
    /\ pc' = "retry"
    /\ UNCHANGED <<now, time_limit, start_time_ms, w, sh, sl, tr, rs, hs>>

\* `while _tries` is false: the function falls off its end and returns None.
RetryLoopExit ==
    /\ pc = "retry"
    /\ rt._tries = 0
    /\ rt' = [rt EXCEPT !.outcome = "None"]
    /\ pc' = "done"
    /\ UNCHANGED <<now, time_limit, start_time_ms, w, sh, sl, tr, rs, hs>>

\* One iteration: call func; return its result, let an exception through,
\* or catch it, re-raise it (tries or time used up) or sleep and go on.
\* Unbounded tries are followed for MaxTries + 1 calls.
RetryAttempt(res, lat, j) ==
    /\ pc = "retry"
    /\ rt._tries # 0
    /\ rt.calls <= MaxTries
    /\ LET t == now + lat
           called == [rt EXCEPT !.calls = rt.calls + 1, !.last = res]
           left == DecrementTries(rt._tries)
           elapsed == t - rt.start_time
       IN  IF ~Catches(res)
           THEN /\ rt' = [called EXCEPT !.outcome = res, !.raisedBy = called.calls]
                /\ now' = t
                /\ pc' = "done"
           ELSE IF TriesExhausted(left)
           THEN /\ rt' = [called EXCEPT !._tries = left, !.outcome = "raise",
                                        !.raisedBy = called.calls, !.lastElapsed = elapsed]
                /\ now' = t
                /\ pc' = "done"
           ELSE IF TimeoutExceeded(elapsed, rt.timeout_ms)
           THEN /\ rt' = [called EXCEPT !._tries = left, !.outcome = "raise",
                                        !.raisedBy = called.calls, !.lastElapsed = elapsed]
                /\ now' = t
                /\ pc' = "done"
           ELSE /\ rt' = [called EXCEPT !._tries = left, !.lastElapsed = elapsed,
                                        !.sleeps = rt.sleeps + 1, !.lastSlept = rt._delay,
                                        !._delay = NextDelay(rt._delay, rt.backoff, j, rt.max_delay),
                                        !.attempt_number = rt.attempt_number + 1]
                /\ now' = t + rt._delay
                /\ pc' = "retry"
    /\ UNCHANGED <<time_limit, start_time_ms, w, sh, sl, tr, rs, hs>>

RetryNext ==
    \/ \E tries \in Tries, delay \in Delays, timeout_ms \in TimeoutsMs,
          max_delay \in MaxDelays, backoff \in Backoffs, jitter \in Jitters :
            StartRetry(tries, delay, timeout_ms, max_delay, backoff, jitter)
    \/ RetryLoopExit
    \/ \E res \in FuncResults, lat \in Latencies :
          \E j \in JitterValues(rt.jitter) : RetryAttempt(res, lat, j)

RetrySpec == RetryInit /\ [][RetryNext]_vars

\* ---------------------------------------------------------- shadow resolver
\* A selector string is held as the sequence of its pieces: "e" a stretch of
\* selector text, "D" the delimiter "::shadow " and "T" the text "::shadow"
\* at the very end of the string, where no space follows it.
Tokens == {"e", "D", "T"}

\* The selector strings followed: "a", "a::shadow", "a::shadow ",
\* "a::shadow b", "a::shadow b::shadow", "a::shadow b::shadow " and
\* "a::shadow b::shadow c".
Selectors ==
    {<<"e">>, <<"e", "T">>, <<"e", "D">>, <<"e", "D", "e">>,
     <<"e", "D", "e", "T">>, <<"e", "D", "e", "D">>, <<"e", "D", "e", "D", "e">>}

\* `"::shadow " in selector`
ContainsDelimiter(s) == \E k \in 1..Len(s) : s[k] = "D"

\* selector.split("::shadow ")
RECURSIVE Split(_)
Split(s) ==
    IF ~ContainsDelimiter(s) THEN <<s>>
    ELSE LET k == CHOOSE j \in 1..Len(s) : s[j] = "D" /\ \A m \in 1..(j - 1) : s[m] # "D"
         IN  <<SubSeq(s, 1, k - 1)>> \o Split(SubSeq(s, k + 1, Len(s)))

\* The timeout the resolver works with, in milliseconds: SMALL_TIMEOUT for
\* None, 0.1 for 0.
EffectiveTimeoutMs(timeout) ==
    IF timeout = {} THEN SMALL_TIMEOUT * MsPerSecond
    ELSE IF timeout = {0} THEN NearZeroMs
    ELSE (CHOOSE t \in timeout : TRUE) * MsPerSecond

\* The timeouts callers are followed with: 0 and whole seconds.
ShadowTimeouts == {{t} : t \in 0..MaxShadowTimeout}

\* The round trips of a remote call the resolver is followed with.
ShadowLatencies == {0, Tick}

\* range(int(timeout) * 4)
Attempts(timeout_ms) == (timeout_ms \div MsPerSecond) * AttemptsPerSecond

\* What the session answers to a lookup inside a shadow root; is_displayed
\* is asked of the element found only when must_be_visible is set.
FindAnswers(must_be_visible) ==
    IF must_be_visible
    THEN {"NoSuchElementException", "hidden", "visible"}
    ELSE {"NoSuchElementException", "element"}

\* What reading a host's shadow root gives: the root, nothing, or an error.
RootAnswers == {"root", "None", "Exception"}

\* The except clause around the lookup: "not visible" when must_be_visible
\* and is_present, a flag set by any lookup of the resolution that found an
\* element and cleared only before the first segment.
Classify(must_be_visible, is_present, found_here) ==
    IF must_be_visible /\ is_present THEN "not visible" ELSE "not present"

TheException(error) ==
    IF error = "not visible" THEN "ElementNotVisibleException" ELSE "NoSuchElementException"

\* Whether a call of check_if_time_limit_exceeded made now would raise.
PastTimeLimit == check_if_time_limit_exceeded(now, time_limit, start_time_ms) # "pass"

ShadowInit ==
    /\ now = 0
    /\ time_limit \in 0..MaxTimeLimit
    /\ start_time_ms = 0
    /\ pc = "idle"
    /\ w = NoWait
    /\ rt = NoRetry
    /\ sh = NoShadow
    /\ sl = NoSleep
    /\ tr = NoTranslation
    /\ rs = NoReady
    /\ hs = NoHarness

\* get_shadow_element is called.  `native` is whether the session is a
\* Chromium of major version 96 or later; `latency` is the round trip of a
\* remote call of this session.
get_shadow_element(selector, timeout, must_be_visible, native, latency) ==
    /\ pc = "idle"
    /\ sh' = [NoShadow EXCEPT !.selector = selector, !.timeout = timeout,
                              !.must_be_visible = must_be_visible, !.native = native,
                              !.latency = latency, !.start_ms = now]
    /\ pc' = "sh_ready"
    /\ UNCHANGED <<now, time_limit, start_time_ms, w, rt, sl, tr, rs, hs>>

\* self.wait_for_ready_state_complete(): the readyState query is sent; the
\* result is not used.  remote_calls counts the remote calls made before the
\* selector is looked at.
ReadyState ==
    /\ pc = "sh_ready"
    /\ sh' = [sh EXCEPT !.remote_calls = sh.remote_calls + 1]
    /\ now' = now + sh.latency
    /\ pc' = "sh_split"
    /\ UNCHANGED <<time_limit, start_time_ms, w, rt, sl, tr, rs, hs>>

\* The timeout defaults, _fail_if_invalid_shadow_selector_usage (whose body
\* is `...`), the test for the delimiter, and the split.
SplitSelector ==
    /\ pc = "sh_split"
    /\ IF ~ContainsDelimiter(sh.selector)
       THEN /\ sh' = [sh EXCEPT !.timeout_ms = EffectiveTimeoutMs(sh.timeout),
                                !.outcome = "TypeError", !.error = "no delimiter"]
            /\ pc' = "done"
       ELSE /\ sh' = [sh EXCEPT !.timeout_ms = EffectiveTimeoutMs(sh.timeout),
                                !.selectors = Split(sh.selector)]
            /\ pc' = "sh_first"
    /\ UNCHANGED <<now, time_limit, start_time_ms, w, rt, sl, tr, rs, hs>>

\* element = self.get_element(selectors[0]); selector_chain = selectors[0]
GetFirstElement(found) ==
    /\ pc = "sh_first"
    /\ IF found
       THEN /\ sh' = [sh EXCEPT !.chain = 1, !.part = 2, !.is_present = FALSE]
            /\ pc' = "sh_root"
       ELSE /\ sh' = [sh EXCEPT !.outcome = "NoSuchElementException", !.error = "first segment"]
            /\ pc' = "done"
    /\ now' = now + sh.latency
    /\ UNCHANGED <<time_limit, start_time_ms, w, rt, sl, tr, rs, hs>>

\* `for selector_part in selectors[1:]` is over: return element.
ReturnElement ==
    /\ pc = "sh_root"
    /\ sh.part > Len(sh.selectors)
    /\ sh' = [sh EXCEPT !.outcome = "element"]
    /\ pc' = "done"
    /\ UNCHANGED <<now, time_limit, start_time_ms, w, rt, sl, tr, rs, hs>>

\* Lines 118-126, with the shadow root read so far: go on to the lookup,
\* give up at once for the 0.1 timeout, or sleep before the scripted read.
AfterRead(s, root, t) ==
    IF root = "root"
    THEN /\ sh' = [s EXCEPT !.chain = s.chain + 1, !.i = 0]
         /\ now' = t
         /\ pc' = "sh_find"
    ELSE IF s.timeout_ms = NearZeroMs
    THEN /\ sh' = [s EXCEPT !.outcome = "Exception", !.error = "no shadow root"]
         /\ now' = t
         /\ pc' = "done"
    ELSE /\ sh' = [s EXCEPT !.root_sleeps = s.root_sleeps + 1]
         /\ now' = t + RootSleepMs
         /\ pc' = "sh_script"

\* A segment begins on a Chromium of version 96 or later: element.shadow_root.
\* `old` is whether the capabilities name a chromedriver older than 96.
ReadShadowRoot(ans, old) ==
    /\ pc = "sh_root"
    /\ sh.part <= Len(sh.selectors)
    /\ sh.native
    /\ LET s == [sh EXCEPT !.reads = 1, !.root_sleeps = 0,
                           !.lookups = 0, !.found_here = FALSE]
           t == now + sh.latency
       IN  IF ans # "Exception" THEN AfterRead(s, ans, t)
           ELSE IF old
           THEN /\ sh' = [s EXCEPT !.outcome = "Exception", !.error = "upgrade chromedriver"]
                /\ now' = t
                /\ pc' = "done"
           ELSE IF s.timeout_ms # NearZeroMs
           THEN /\ sh' = [s EXCEPT !.root_sleeps = 1]
                /\ now' = t + RootSleepMs
                /\ pc' = "sh_reread"
           ELSE /\ sh' = s
                /\ now' = t
                /\ pc' = "sh_reread"
    /\ UNCHANGED <<time_limit, start_time_ms, w, rt, sl, tr, rs, hs>>

\* The second element.shadow_root, in the handler of the first.
RereadShadowRoot(ans) ==
    /\ pc = "sh_reread"
    /\ LET s == [sh EXCEPT !.reads = sh.reads + 1]
           t == now + sh.latency
       IN  IF ans = "Exception"
           THEN /\ sh' = [s EXCEPT !.outcome = "Exception", !.error = "no shadow root"]
                /\ now' = t
                /\ pc' = "done"
           ELSE AfterRead(s, ans, t)
    /\ UNCHANGED <<time_limit, start_time_ms, w, rt, sl, tr, rs, hs>>

\* execute_script("return arguments[0].shadowRoot", element) after the sleep.
ScriptShadowRoot(ans) ==
    /\ pc = "sh_script"
    /\ LET s == [sh EXCEPT !.reads = sh.reads + 1]
           t == now + sh.latency
       IN  IF ans = "root"
           THEN /\ sh' = [s EXCEPT !.chain = s.chain + 1, !.i = 0]
                /\ pc' = "sh_find"
           ELSE IF ans = "None"
           THEN /\ sh' = [s EXCEPT !.outcome = "Exception", !.error = "no shadow root"]
                /\ pc' = "done"
           ELSE /\ sh' = [s EXCEPT !.outcome = "JavascriptException", !.error = "script"]
                /\ pc' = "done"
    /\ now' = now + sh.latency
    /\ UNCHANGED <<time_limit, start_time_ms, w, rt, sl, tr, rs, hs>>

\* A segment begins on any other session: retry_call(retry_execute_script,
\* element, ...) binds the element to f_args, and partial(func, *args)
\* cannot unpack it: TypeError, which `except JavascriptException` lets by.
LegacyShadowRoot ==
    /\ pc = "sh_root"
    /\ sh.part <= Len(sh.selectors)
    /\ ~sh.native
    /\ sh' = [sh EXCEPT !.reads = 0, !.root_sleeps = 0, !.lookups = 0, !.found_here = FALSE,
                        !.outcome = "TypeError", !.error = "retry_call"]
    /\ pc' = "done"
    /\ UNCHANGED <<now, time_limit, start_time_ms, w, rt, sl, tr, rs, hs>>

\* The exception of a lookup reaches the outer handler: timeout_exception.
Fail(s) ==
    LET e == Classify(s.must_be_visible, s.is_present, s.found_here)
    IN  [s EXCEPT !.error = e, !.outcome = TheException(e)]

\* The 0.1 timeout: a single lookup, is_displayed is not asked.
FindOnce(found) ==
    /\ pc = "sh_find"
    /\ sh.timeout_ms = NearZeroMs
    /\ LET s == [sh EXCEPT !.lookups = sh.lookups + 1,
                           !.late = sh.late \/ PastTimeLimit,
                           !.found_here = sh.found_here \/ found]
       IN  IF found
           THEN /\ sh' = [s EXCEPT !.part = sh.part + 1]
                /\ pc' = "sh_root"
           ELSE /\ sh' = Fail(s)
                /\ pc' = "done"
    /\ now' = now + sh.latency
    /\ UNCHANGED <<time_limit, start_time_ms, w, rt, sl, tr, rs, hs>>

\* One turn of `for i in range(int(timeout) * 4)`.
PollFind(ans) ==
    /\ pc = "sh_find"
    /\ sh.timeout_ms # NearZeroMs
    /\ sh.i < Attempts(sh.timeout_ms)
    /\ LET found == ans # "NoSuchElementException"
           calls == IF found /\ sh.must_be_visible THEN 2 ELSE 1
           s == [sh EXCEPT !.lookups = sh.lookups + 1,
                           !.late = sh.late \/ PastTimeLimit,
                           !.found_here = sh.found_here \/ found,
                           !.is_present = sh.is_present \/ found]
       IN  IF ans \in {"visible", "element"}
           THEN /\ sh' = [s EXCEPT !.part = sh.part + 1]
                /\ now' = now + calls * sh.latency
                /\ pc' = "sh_root"
           ELSE /\ sh' = [s EXCEPT !.i = sh.i + 1]
                /\ now' = now + calls * sh.latency + PollSleepMs
                /\ pc' = "sh_find"
    /\ UNCHANGED <<time_limit, start_time_ms, w, rt, sl, tr, rs, hs>>

\* `if not found:` after the loop: one more lookup, outside the inner try.
FinalFind(ans) ==
    /\ pc = "sh_find"
    /\ sh.timeout_ms # NearZeroMs
    /\ sh.i >= Attempts(sh.timeout_ms)
    /\ LET found == ans # "NoSuchElementException"
           calls == IF found /\ sh.must_be_visible THEN 2 ELSE 1
           s == [sh EXCEPT !.lookups = sh.lookups + 1,
                           !.late = sh.late \/ PastTimeLimit,
                           !.found_here = sh.found_here \/ found,
                           !.is_present = sh.is_present \/ found]
       IN  /\ IF ans \in {"visible", "element"}
              THEN /\ sh' = [s EXCEPT !.part = sh.part + 1]
                   /\ pc' = "sh_root"
              ELSE /\ sh' = Fail(s)
                   /\ pc' = "done"
           /\ now' = now + calls * sh.latency
    /\ UNCHANGED <<time_limit, start_time_ms, w, rt, sl, tr, rs, hs>>

ShadowNext ==
    \/ \E selector \in Selectors, timeout \in ShadowTimeouts,
          must_be_visible \in BOOLEAN, native \in BOOLEAN, latency \in ShadowLatencies :
            get_shadow_element(selector, timeout, must_be_visible, native, latency)
    \/ ReadyState
    \/ SplitSelector
    \/ \E found \in BOOLEAN : GetFirstElement(found)
    \/ ReturnElement
    \/ \E ans \in RootAnswers, old \in BOOLEAN : ReadShadowRoot(ans, old)
    \/ \E ans \in RootAnswers : RereadShadowRoot(ans)
    \/ \E ans \in RootAnswers : ScriptShadowRoot(ans)
    \/ LegacyShadowRoot
    \/ \E found \in BOOLEAN : FindOnce(found)
    \/ \E ans \in FindAnswers(sh.must_be_visible) : PollFind(ans)
    \/ \E ans \in FindAnswers(sh.must_be_visible) : FinalFind(ans)

ShadowSpec == ShadowInit /\ [][ShadowNext]_vars

\* ------------------------------------------------------------ harness sleep
\* PytestUnitTestCase.sleep and WebDriverTest.sleep, which are the same
\* statement for statement.  Durations are held in milliseconds.
SleepDurations == {k * Tick : k \in 1..MaxSleepTicks}

\* range(int(seconds * 5))
SleepSteps(seconds_ms) == (seconds_ms * SleepStepsPerSecond) \div MsPerSecond

SleepInit ==
    /\ now \in {k * Tick : k \in 0..MaxStart}
    /\ time_limit \in 0..MaxTimeLimit
    /\ start_time_ms = 0
    /\ pc = "idle"
    /\ w = NoWait
    /\ rt = NoRetry
    /\ sh = NoShadow
    /\ sl = NoSleep
    /\ tr = NoTranslation
    /\ rs = NoReady
    /\ hs = NoHarness

\* sleep(seconds) is called: `limit` is read from the store and selects
\* the branch: `if limit`, `elif seconds < 0.4`, else the loop.
sleep(seconds_ms) ==
    /\ pc = "idle"
    /\ sl' = [NoSleep EXCEPT !.seconds_ms = seconds_ms, !.start_ms = now,
                             !.stop_ms = now + seconds_ms]
    /\ pc' = IF time_limit # 0 THEN "sl_plain"
             ELSE IF seconds_ms < ShortSleepMs THEN "sl_short"
             ELSE "sl_loop"
    /\ UNCHANGED <<now, time_limit, start_time_ms, w, rt, sh, tr, rs, hs>>

\* `if limit: time.sleep(seconds)`
SleepWhole ==
    /\ pc = "sl_plain"
    /\ now' = now + sl.seconds_ms
    /\ sl' = [sl EXCEPT !.slept_ms = sl.seconds_ms, !.outcome = "return"]
    /\ pc' = "done"
    /\ UNCHANGED <<time_limit, start_time_ms, w, rt, sh, tr, rs, hs>>

\* `elif seconds < 0.4`: check, time.sleep(seconds), check.
SleepShort ==
    /\ pc = "sl_short"
    /\ LET c1 == check_if_time_limit_exceeded(now, time_limit, start_time_ms)
           t == now + sl.seconds_ms
           c2 == check_if_time_limit_exceeded(t, time_limit, start_time_ms)
       IN  IF c1 # "pass"
           THEN /\ sl' = [sl EXCEPT !.checks = 1, !.outcome = c1]
                /\ now' = now
           ELSE /\ sl' = [sl EXCEPT !.checks = 2, !.slept_ms = sl.seconds_ms,
                                    !.outcome = IF c2 = "pass" THEN "return" ELSE c2]
                /\ now' = t
    /\ pc' = "done"
    /\ UNCHANGED <<time_limit, start_time_ms, w, rt, sh, tr, rs, hs>>

\* The loop of the last branch is over (range used up): return.
SleepLoopExit ==
    /\ pc = "sl_loop"
    /\ sl.x >= SleepSteps(sl.seconds_ms)
    /\ sl' = [sl EXCEPT !.outcome = "return"]
    /\ pc' = "done"
    /\ UNCHANGED <<now, time_limit, start_time_ms, w, rt, sh, tr, rs, hs>>

\* One iteration of the loop: check, `if now_ms >= stop_ms: break`,
\* time.sleep(0.2).
SleepLoopStep ==
    /\ pc = "sl_loop"
    /\ sl.x < SleepSteps(sl.seconds_ms)
    /\ LET c == check_if_time_limit_exceeded(now, time_limit, start_time_ms)
       IN  IF c # "pass"
           THEN /\ sl' = [sl EXCEPT !.checks = sl.checks + 1, !.outcome = c]
                /\ pc' = "done"
                /\ now' = now
           ELSE IF now >= sl.stop_ms
           THEN /\ sl' = [sl EXCEPT !.checks = sl.checks + 1, !.outcome = "return"]
                /\ pc' = "done"
                /\ now' = now
           ELSE /\ sl' = [sl EXCEPT !.checks = sl.checks + 1, !.x = sl.x + 1,
                                    !.slept_ms = sl.slept_ms + SleepStepMs]
                /\ pc' = "sl_loop"
                /\ now' = now + SleepStepMs
    /\ UNCHANGED <<time_limit, start_time_ms, w, rt, sh, tr, rs, hs>>

SleepNext ==
    \/ \E seconds_ms \in SleepDurations : sleep(seconds_ms)
    \/ SleepWhole
    \/ SleepShort
    \/ SleepLoopExit
    \/ SleepLoopStep

SleepSpec == SleepInit /\ [][SleepNext]_vars

\* ------------------------------------------------------ XPath to CSS
\* An XPath is held as the sequence of its location steps, a CSS selector
\* as the sequence of its pieces: a space, ">", a tag, or the whole text
\* that a predicate or an index is turned into.  A step is its axis ("/" or "//"), its
\* tag ("*" or a name), its predicate and its position index ({} when it
\* has none).  A predicate is named for its text:
\*   "id"                [@id='x']
\*   "class"             [@class='a b']
\*   "attribute"         [@name='v']
\*   "type"              [@type='submit']
\*   "contains_text"     [contains(text(),'v')]
\*   "contains_sign_in"  [contains(text(),'Sign in')]
\*   "or"                [@id='v' or @id='v']
\*   "position"          [position()=1]
\* The last two are outside the grammar the translator is written for.
\* The XPaths drawn hold no `and`, no double quote, no grouping and no
\* descendant-or-self axis, so the passes convert_xpath_to_css makes for
\* those leave them as they are.  They hold at most one
\* quoted predicate: the value group of `prog` matches any character, so
\* with two of them the value of the first runs on to the closing quote of
\* the last, which the steps held here do not describe.
Navs == {"/", "//"}
Tags == {"*", "div"}
Predicates == {"none", "id", "attribute", "contains_text", "or", "position"}
Indexes == {{}, {"2"}}
Steps == [nav : Navs, tag : Tags, pred : Predicates, nth : Indexes]
Quoted(xpath) == {i \in 1..Len(xpath) : xpath[i].pred \notin {"none", "position"}}
XPaths ==
    {xpath \in UNION {[1..n -> Steps] : n \in 1..MaxSteps} : Cardinality(Quoted(xpath)) <= 1}

\* The calls made of the translator: each XPath above as it stands, and
\* four XPaths of one step each, the last inside a grouping "(...)[2]".
Examples ==
    {<<<<[nav |-> "//", tag |-> "div", pred |-> "id", nth |-> {}]>>, {}>>,
     <<<<[nav |-> "//", tag |-> "*", pred |-> "class", nth |-> {}]>>, {}>>,
     <<<<[nav |-> "//", tag |-> "a", pred |-> "contains_sign_in", nth |-> {}]>>, {}>>,
     <<<<[nav |-> "//", tag |-> "button", pred |-> "type", nth |-> {}]>>, {"2"}>>}
Translations == {<<xpath, {}>> : xpath \in XPaths} \cup Examples

\* What `prog` matches of a predicate: the alternative ("matched" for
\* @attr='value', "contained" for contains(attr,'value'), "unmatched" when
\* neither fits, "none" without predicate), the attribute and the value,
\* held as its words.  The value group takes any character up to the last
\* quote that a "]" follows, so the whole inside of "or" is one value,
\* written here with the double quotes the last replacements leave in it.
Groups(pred) ==
    CASE pred = "id" -> [alt |-> "matched", attr |-> "@id", value |-> <<"x">>]
      [] pred = "class" -> [alt |-> "matched", attr |-> "@class", value |-> <<"a", "b">>]
      [] pred = "attribute" -> [alt |-> "matched", attr |-> "@name", value |-> <<"v">>]
      [] pred = "type" -> [alt |-> "matched", attr |-> "@type", value |-> <<"submit">>]
      [] pred = "contains_text" ->
            [alt |-> "contained", attr |-> "text()", value |-> <<"v">>]
      [] pred = "contains_sign_in" ->
            [alt |-> "contained", attr |-> "text()", value |-> <<"Sign", "in">>]
      [] pred = "or" ->
            [alt |-> "matched", attr |-> "@id", value |-> <<"v\"", "or", "@id=\"v">>]
      [] pred = "position" -> [alt |-> "unmatched", attr |-> "", value |-> <<>>]
      [] OTHER -> [alt |-> "none", attr |-> "", value |-> <<>>]

\* The words of a value with `sep` between them: value.replace(" ", sep),
\* or the value as it stands when sep is the space.
RECURSIVE Join(_, _)
Join(words, sep) ==
    IF Len(words) <= 1 THEN words
    ELSE <<words[1], sep>> \o Join(Tail(words), sep)

\* The name of an attribute: match["mattr"].replace("@", "")
AttrName(attr) ==
    CASE attr = "@id" -> "id"
      [] attr = "@class" -> "class"
      [] attr = "@name" -> "name"
      [] attr = "@type" -> "type"
      [] OTHER -> attr

_filter_xpath_groupingDropsIndex(xpath, group) == xpath

\* _filter_xpath_grouping: the first "(" and the last ")" go, which leaves
\* the index of the grouping behind the last step.  The groupings drawn
\* close on a step that has no index of its own.
_filter_xpath_grouping(xpath, group) ==
    IF group = {} THEN xpath
    ELSE [xpath EXCEPT ![Len(xpath)].nth = group]

\* The step written "/descORself".
descORself == [nav |-> "/", tag |-> "descORself", pred |-> "none", nth |-> {}]

\* Whether the text of a step is two characters long: "/" and a tag of one
\* character, nothing else.
TwoCharacters(step) ==
    step.nav = "/" /\ step.tag = "*" /\ step.pred = "none" /\ step.nth = {}

\* `xpath[0:3] + xpath[3:].replace("//", "/descORself/")`: every "//" that
\* lies wholly after the third character becomes "/descORself/".  The "//"
\* of the first step starts at character 0; the one of the second step
\* starts at character 2 when the first step is two characters long.
RECURSIVE ReplaceDoubleSlash(_, _)
ReplaceDoubleSlash(xpath, i) ==
    IF i > Len(xpath) THEN <<>>
    ELSE LET step == xpath[i]
             kept == i = 1 \/ (i = 2 /\ TwoCharacters(xpath[1]))
         IN  IF step.nav = "//" /\ ~kept
             THEN <<descORself, [step EXCEPT !.nav = "/"]>> \o ReplaceDoubleSlash(xpath, i + 1)
             ELSE <<step>> \o ReplaceDoubleSlash(xpath, i + 1)

\* `nav = " " if match["nav"] == "//" else " > "`, and "" at position 0
NavCss(position, step) ==
    IF position # 0
    THEN IF step.nav = "//" THEN <<" ">> ELSE <<" ", ">", " ">>
    ELSE <<>>

\* `tag = "" if match["tag"] == "*" else match["tag"]`
TagCss(step) == IF step.tag = "*" THEN <<>> ELSE <<step.tag>>

\* The attr pieces of a node, by the predicate matched: "#" and "." with
\* the value's spaces replaced for @id and @class, [name="value"] for
\* another attribute, :contains("value") for contains(text(), ...).
AttrCss(step) ==
    LET g == Groups(step.pred)
    IN  IF g.alt = "matched"
        THEN IF g.attr = "@id" THEN <<"#">> \o Join(g.value, "#")
             ELSE IF g.attr = "@class" THEN <<".">> \o Join(g.value, ".")
             ELSE <<"[", AttrName(g.attr), "=\"">> \o Join(g.value, " ") \o <<"\"]">>
        ELSE IF g.alt = "contained"
        THEN <<":contains(\"">> \o Join(g.value, " ") \o <<"\")">>
        ELSE <<>>

\* `nth = ":nth-of-type(%s)" % match["nth"]`, or ""
NthCss(step) ==
    IF step.nth # {}
    THEN <<":nth-of-type(", CHOOSE n \in step.nth : TRUE, ")">>
    ELSE <<>>

\* str.replace on a sequence of pieces: every occurrence of `old`, left to
\* right, becomes `new`.
RECURSIVE Replace(_, _, _)
Replace(css, old, new) ==
    IF Len(css) < Len(old) THEN css
    ELSE IF SubSeq(css, 1, Len(old)) = old
    THEN new \o Replace(SubSeq(css, Len(old) + 1, Len(css)), old, new)
    ELSE <<css[1]>> \o Replace(Tail(css), old, new)

\* str.strip(): no piece of white space at either end.
RECURSIVE Strip(_)
Strip(css) ==
    IF css = <<>> THEN css
    ELSE IF css[1] = " " THEN Strip(Tail(css))
    ELSE IF css[Len(css)] = " " THEN Strip(SubSeq(css, 1, Len(css) - 1))
    ELSE css

\* The replacements made on the raw CSS that can bear on its pieces here:
\* the ones written with "/" find nothing, every "/" having been consumed
\* as the axis of a node, and "] *[" finds nothing, the tag "*" having been
\* dropped.
HandleEdgeCases(css) ==
    LET c1 == Replace(css, <<" ", ">", " ", "descORself", " ", ">", " ">>, <<" ">>)
        c2 == Replace(c1, <<" ", "descORself", " ", ">", " ">>, <<" ">>)
        c3 == Replace(c2, <<"descORself", " ", ">", " ">>, <<>>)
        c4 == Replace(c3, <<"descORself">>, <<" ">>)
    IN  c4

TranslateInit ==
    /\ now = 0
    /\ time_limit = 0
    /\ start_time_ms = 0
    /\ pc = "idle"
    /\ w = NoWait
    /\ rt = NoRetry
    /\ sh = NoShadow
    /\ sl = NoSleep
    /\ tr = NoTranslation
    /\ rs = NoReady
    /\ hs = NoHarness

\* convert_xpath_to_css is called: the passes made on the XPath before
\* _get_raw_css_from_xpath, whose loop starts at position 0.
convert_xpath_to_css(xpath, group) ==
    /\ pc = "idle"
    /\ tr' = [NoTranslation EXCEPT
                !.input = xpath,
                !.group = group,
                !.xpath = _filter_xpath_grouping(ReplaceDoubleSlash(xpath, 1), group)]
    /\ pc' = "tr_raw"
    /\ UNCHANGED <<now, time_limit, start_time_ms, w, rt, sh, sl, rs, hs>>

\* One turn of the loop of _get_raw_css_from_xpath: the node at `position`
\* is matched and its CSS appended.  `prog` takes the axis and the tag of a
\* step whose predicate fits neither alternative and stops before the "[":
\* `pending` says that the text left begins with that predicate.
RawNode ==
    /\ pc = "tr_raw"
    /\ tr.position < Len(tr.xpath)
    /\ ~tr.pending
    /\ LET step == tr.xpath[tr.position + 1]
           unmatched == Groups(step.pred).alt = "unmatched"
           node_css == IF unmatched
                       THEN NavCss(tr.position, step) \o TagCss(step)
                       ELSE NavCss(tr.position, step) \o TagCss(step)
                                \o AttrCss(step) \o NthCss(step)
       IN  tr' = [tr EXCEPT !.css = tr.css \o node_css,
                            !.pending = unmatched,
                            !.position = IF unmatched THEN tr.position
                                         ELSE tr.position + 1]
    /\ pc' = "tr_raw"
    /\ UNCHANGED <<now, time_limit, start_time_ms, w, rt, sh, sl, rs, hs>>

\* `if node is None: raise XpathException(...)`: the text left begins with
\* something that is no node.
RawNoMatch ==
    /\ pc = "tr_raw"
    /\ tr.pending
    /\ tr' = [tr EXCEPT !.css = <<>>, !.outcome = "XpathException"]
    /\ pc' = "done"
    /\ UNCHANGED <<now, time_limit, start_time_ms, w, rt, sh, sl, rs, hs>>

\* The loop is over: the raw CSS is stripped and returned, and
\* convert_xpath_to_css makes its replacements and returns the CSS.
RawReturn ==
    /\ pc = "tr_raw"
    /\ tr.position >= Len(tr.xpath)
    /\ ~tr.pending
    /\ tr' = [tr EXCEPT !.css = HandleEdgeCases(Strip(tr.css)), !.outcome = "css"]
    /\ pc' = "done"
    /\ UNCHANGED <<now, time_limit, start_time_ms, w, rt, sh, sl, rs, hs>>

\* The strategies of a locator (selenium's By), one value that is none of
\* them, and the selector texts drawn for every strategy but XPath.
Hows ==
    {"css selector", "tag name", "id", "class name", "name", "xpath", "link text",
     "partial link text", "other"}
LocatorSelectors == {<<"v">>, <<"a", " ", "b">>}

convert_to_css_selectorTagAsId(how, selector) ==
    CASE how = "css selector" -> selector
      [] how \in {"id", "tag name"} -> <<"#">> \o selector
      [] how = "class name" -> <<".">> \o selector
      [] how = "name" -> <<"[name=\"">> \o selector \o <<"\"]">>
      [] how \in {"link text", "partial link text"} ->
            <<"a:contains(\"">> \o selector \o <<"\")">>
      [] OTHER -> <<>>

\* SelectorConverter.convert_to_css_selector for every strategy whose CSS
\* is written from the selector alone.
convert_to_css_selector(how, selector) ==
    CASE how \in {"css selector", "tag name"} -> selector
      [] how = "id" -> <<"#">> \o selector
      [] how = "class name" -> <<".">> \o selector
      [] how = "name" -> <<"[name=\"">> \o selector \o <<"\"]">>
      [] how \in {"link text", "partial link text"} ->
            <<"a:contains(\"">> \o selector \o <<"\")">>
      [] OTHER -> <<>>

\* SelectorConverter(how, selector).convert_to_css_selector(): the XPath
\* strategy goes through convert_xpath_to_css, a strategy that is none of
\* selenium's raises ValueError, the others answer at once.
SelectorConverter(how, selector) ==
    /\ pc = "idle"
    /\ how # "xpath"
    /\ tr' = [NoTranslation EXCEPT
                !.how = how,
                !.selector = selector,
                !.css = convert_to_css_selector(how, selector),
                !.outcome = IF how = "other" THEN "ValueError" ELSE "css"]
    /\ pc' = "done"
    /\ UNCHANGED <<now, time_limit, start_time_ms, w, rt, sh, sl, rs, hs>>

\* `elif self.how == By.XPATH: return self.convert_xpath_to_css()`, which
\* hands the selector to the translator and returns str() of its answer.
SelectorConverterXpath(xpath) ==
    /\ pc = "idle"
    /\ tr' = [NoTranslation EXCEPT
                !.how = "xpath",
                !.input = xpath,
                !.xpath = ReplaceDoubleSlash(xpath, 1)]
    /\ pc' = "tr_raw"
    /\ UNCHANGED <<now, time_limit, start_time_ms, w, rt, sh, sl, rs, hs>>

TranslateNext ==
    \/ pc = "idle" /\ \E how \in Hows, selector \in LocatorSelectors :
                            SelectorConverter(how, selector)
    \/ pc = "idle" /\ \E xpath \in XPaths : SelectorConverterXpath(xpath)
    \/ pc = "idle" /\ \E call \in Translations : convert_xpath_to_css(call[1], call[2])
    \/ RawNode
    \/ RawNoMatch
    \/ RawReturn

TranslateSpec == TranslateInit /\ [][TranslateNext]_vars

\* -------------------------------------------------------- link text waits
\* wait_for_link_text_present and wait_for_partial_link_text_present of
\* sel4.core.helpers.element_actions, which are written alike.  The locals
\* are held in `w`, with the function called as its condition.
LinkWaits == {"LinkText", "PartialLinkText"}

LinkInit ==
    /\ now \in {k * Tick : k \in 0..MaxStart}
    /\ time_limit \in 0..MaxTimeLimit
    /\ start_time_ms = 0
    /\ pc = "idle"
    /\ w = NoWait
    /\ rt = NoRetry
    /\ sh = NoShadow
    /\ sl = NoSleep
    /\ tr = NoTranslation
    /\ rs = NoReady
    /\ hs = NoHarness

\* The lines before the loop.
wait_for_link_text_present(kind, timeout) ==
    /\ pc = "idle"
    /\ w' = [NoWait EXCEPT !.cond = kind, !.timeout = timeout,
                           !.start_ms = now, !.stop_ms = StopMs(now, timeout)]
    /\ pc' = "lt_loop"
    /\ UNCHANGED <<now, time_limit, start_time_ms, rt, sh, sl, tr, rs, hs>>

\* The head of the for statement and the top of an iteration: with the
\* range used up the function ends and returns None (the raise is written
\* inside the loop); otherwise check_if_time_limit_exceeded().
LinkLoopTop ==
    /\ pc = "lt_loop"
    /\ IF w.x >= RangeLen(w.timeout)
       THEN /\ w' = [w EXCEPT !.outcome = "None", !.exit = "range"]
            /\ pc' = "done"
       ELSE LET c == check_if_time_limit_exceeded(now, time_limit, start_time_ms)
            IN  IF c = "pass"
                THEN /\ pc' = "lt_probe"
                     /\ w' = [w EXCEPT !.checks = w.checks + 1]
                ELSE /\ pc' = "done"
                     /\ w' = [w EXCEPT !.checks = w.checks + 1, !.outcome = c,
                                       !.exit = "check"]
    /\ UNCHANGED <<now, time_limit, start_time_ms, rt, sh, sl, tr, rs, hs>>

\* The rest of an iteration.  Link text present: `return`.  Absent: the
\* ValueError is caught; at the stop time `break` leaves the loop and the
\* function returns None; before it, state_message sleeps, and the lines
\* that follow the try statement inside the loop body build the message
\* and raise TimeoutException.
LinkProbe(is_present, lat) ==
    /\ pc = "lt_probe"
    /\ LET t == now + lat
           seen == [w EXCEPT !.probes = w.probes + 1,
                             !.lastLatency = lat,
                             !.is_present = is_present,
                             !.last = IF is_present THEN "return" ELSE "ValueError"]
       IN  IF is_present
           THEN /\ w' = [seen EXCEPT !.outcome = "Satisfied", !.exit = "return"]
                /\ now' = t
           ELSE IF StopReached(t, w.stop_ms)
           THEN /\ w' = [seen EXCEPT !.outcome = "None", !.exit = "break"]
                /\ now' = t
           ELSE /\ w' = [seen EXCEPT !.outcome = "TimeoutException", !.exit = "raise",
                                     !.sleeps = w.sleeps + 1]
                /\ now' = t + SleepMs(w.timeout)
    /\ pc' = "done"
    /\ UNCHANGED <<time_limit, start_time_ms, rt, sh, sl, tr, rs, hs>>

LinkNext ==
    \/ pc = "idle" /\ \E kind \in LinkWaits, timeout \in 0..MaxTimeout :
                        wait_for_link_text_present(kind, timeout)
    \/ LinkLoopTop
    \/ pc = "lt_probe" /\ \E is_present \in BOOLEAN, lat \in Latencies :
                            LinkProbe(is_present, lat)

LinkSpec == LinkInit /\ [][LinkNext]_vars

\* ------------------------------------------------------------ test class
\* setup, set_time_limit, get_timeout and the public calls of the test
\* class.  In this specification the entry of the store under the Deadline
\* key is held in hs.store by its kind, "absent" or "StashKey", since
\* set_time_limit writes no number there; hs.none_key says that the store
\* has an entry under the key None.
Limits == {{}} \cup {{x} : x \in -1..MaxTimeLimit}
HarnessTimeouts ==
    {{}} \cup {{t} : t \in 0..MaxTimeout} \cup {{SMALL_TIMEOUT}, {LARGE_TIMEOUT}}
Multipliers == 0..MaxMultiplier

\* `if time_limit:` on the argument
Truthy(time_limit_arg) == time_limit_arg # {} /\ time_limit_arg # {0}

\* set_time_limit(time_limit).  The parameter has the name of the key, and
\* `from .runtime import time_limit` inside the true branch rebinds it to
\* the key: `runtime_store[time_limit] = time_limit` stores the key under
\* itself, and `current_time_limit > 0` then compares a StashKey with 0,
\* a TypeError.  With a falsy argument the name is still the argument, so
\* `runtime_store[time_limit] = None` writes under the key None (or 0) and
\* leaves the Deadline entry as it was.
set_time_limit(store, none_key, time_limit_arg) ==
    IF Truthy(time_limit_arg)
    THEN [store |-> "StashKey", none_key |-> none_key, outcome |-> "TypeError"]
    ELSE [store |-> store, none_key |-> TRUE, outcome |-> "returned"]

\* check_if_time_limit_exceeded on the entry as set_time_limit leaves it:
\* nothing to check without an entry, and `int(_time_limit * 1000.0)` on
\* a StashKey is a TypeError.
StoredLimitCheck(store) == IF store = "absent" THEN "pass" ELSE "TypeError"

\* __get_new_timeout: int(math.ceil(timeout_multiplier * timeout)), for a
\* multiplier that is a whole number of 1 or more.
__get_new_timeout(timeout, timeout_multiplier) == timeout_multiplier * timeout

\* get_timeout(timeout, default_tm); multiplier 0 stands for the option
\* timeout_multiplier not being set.
get_timeout(timeout, default_tm, timeout_multiplier) ==
    IF timeout = {} \/ timeout = {0}
    THEN default_tm
    ELSE LET t == CHOOSE v \in timeout : TRUE
         IN  IF timeout_multiplier # 0 /\ t = default_tm
             THEN __get_new_timeout(t, timeout_multiplier)
             ELSE t

HarnessInit ==
    /\ now \in {k * Tick : k \in 0..MaxStart}
    /\ time_limit = 0
    /\ start_time_ms = 0
    /\ pc = "idle"
    /\ w = NoWait
    /\ rt = NoRetry
    /\ sh = NoShadow
    /\ sl = NoSleep
    /\ tr = NoTranslation
    /\ rs = NoReady
    /\ hs = NoHarness

\* setup: `self.set_time_limit(self.config.getoption("time_limit", None))`
\* and, when that returns, `runtime_store[start_time_ms] = int(time.time()
\* * 1000.0)`.
setup(time_limit_arg) ==
    /\ pc = "idle"
    /\ LET s == set_time_limit(hs.store, hs.none_key, time_limit_arg)
       IN  /\ hs' = [hs EXCEPT !.limit = time_limit_arg, !.store = s.store,
                               !.none_key = s.none_key, !.setup = s.outcome]
           /\ IF s.outcome = "returned"
              THEN start_time_ms' = now /\ pc' = "ready"
              ELSE start_time_ms' = start_time_ms /\ pc' = "failed"
    /\ UNCHANGED <<now, time_limit, w, rt, sh, sl, tr, rs>>

\* A deadline check made once setup is over.
HarnessCheck ==
    /\ pc \in {"ready", "failed"}
    /\ hs.check = "-"
    /\ hs' = [hs EXCEPT !.check = StoredLimitCheck(hs.store)]
    /\ UNCHANGED <<now, time_limit, start_time_ms, pc, w, rt, sh, sl, tr, rs>>

\* click(how, selector, timeout): `self.get_timeout(timeout,
\* constants.SMALL_TIMEOUT)` is called and its value dropped; the wait is
\* given `timeout=timeout`, the argument as it came.
click(timeout, timeout_multiplier) ==
    /\ pc = "ready"
    /\ hs' = [hs EXCEPT !.call = "click", !.timeout = timeout,
                        !.multiplier = timeout_multiplier,
                        !.computed = get_timeout(timeout, SMALL_TIMEOUT, timeout_multiplier),
                        !.loop_timeout = timeout]
    /\ pc' = "called"
    /\ UNCHANGED <<now, time_limit, start_time_ms, w, rt, sh, sl, tr, rs>>

\* wait_for_element_visible(how, selector, timeout): `timeout =
\* self.get_timeout(timeout, constants.LARGE_TIMEOUT)`, handed to the wait.
wait_for_element_visible(timeout, timeout_multiplier) ==
    /\ pc = "ready"
    /\ LET t == get_timeout(timeout, LARGE_TIMEOUT, timeout_multiplier)
       IN  hs' = [hs EXCEPT !.call = "wait_for_element_visible", !.timeout = timeout,
                            !.multiplier = timeout_multiplier,
                            !.computed = t, !.loop_timeout = {t}]
    /\ pc' = "called"
    /\ UNCHANGED <<now, time_limit, start_time_ms, w, rt, sh, sl, tr, rs>>

\* wait_for_element_present(how, selector, timeout), written the same way.
wait_for_element_present(timeout, timeout_multiplier) ==
    /\ pc = "ready"
    /\ LET t == get_timeout(timeout, LARGE_TIMEOUT, timeout_multiplier)
       IN  hs' = [hs EXCEPT !.call = "wait_for_element_present", !.timeout = timeout,
                            !.multiplier = timeout_multiplier,
                            !.computed = t, !.loop_timeout = {t}]
    /\ pc' = "called"
    /\ UNCHANGED <<now, time_limit, start_time_ms, w, rt, sh, sl, tr, rs>>

HarnessNext ==
    \/ \E time_limit_arg \in Limits : setup(time_limit_arg)
    \/ HarnessCheck
    \/ \E timeout \in HarnessTimeouts, m \in Multipliers : click(timeout, m)
    \/ \E timeout \in HarnessTimeouts, m \in Multipliers :
          wait_for_element_visible(timeout, m)
    \/ \E timeout \in HarnessTimeouts, m \in Multipliers :
          wait_for_element_present(timeout, m)

HarnessSpec == HarnessInit /\ [][HarnessNext]_vars

\* ------------------------------------------------------- readyState wait
\* wait_for_ready_state_complete of sel4.core.js_utils.  The page answers
\* the script "return document.readyState" with one of its states, or the
\* session raises WebDriverException.
ReadyStates == {"loading", "interactive", "complete", "WebDriverException"}

ReadyInit ==
    /\ now \in {k * Tick : k \in 0..MaxStart}
    /\ time_limit \in 0..MaxTimeLimit
    /\ start_time_ms = 0
    /\ pc = "idle"
    /\ w = NoWait
    /\ rt = NoRetry
    /\ sh = NoShadow
    /\ sl = NoSleep
    /\ tr = NoTranslation
    /\ rs = NoReady
    /\ hs = NoHarness

\* The lines before the loop.  `t_limit = runtime_store.get(time_limit, 0)`
\* has a default, `if runtime_store[time_limit] > 0:` has none: without a
\* limit in the store the subscript raises KeyError (no entry) or the
\* comparison raises TypeError (the entry is None).  `timeout` is validated
\* as an int greater than 0.
wait_for_ready_state_complete(timeout, error) ==
    /\ pc = "idle"
    /\ IF time_limit = 0
       THEN /\ rs' = [NoReady EXCEPT !.timeout = timeout, !.outcome = error,
                                     !.exit = "raise"]
            /\ pc' = "done"
       ELSE /\ rs' = [NoReady EXCEPT !.timeout = timeout, !.t_limit = time_limit,
                                     !.start_ms = now, !.stop_ms = StopMs(now, timeout)]
            /\ pc' = "rs_loop"
    /\ UNCHANGED <<now, time_limit, start_time_ms, w, rt, sh, sl, tr, hs>>

\* The head of the for statement and the top of an iteration: with the
\* range used up, `return False`; otherwise `if t_limit > 0:
\* shared.check_if_time_limit_exceeded()`.  The sleeps of state_message add
\* up to the timeout after five iterations, so the range of ten per second
\* is not used up while the clock runs.
ReadyLoopTop ==
    /\ pc = "rs_loop"
    /\ IF rs.x >= RangeLen(rs.timeout)
       THEN /\ rs' = [rs EXCEPT !.outcome = "False", !.exit = "range"]
            /\ pc' = "done"
       ELSE LET c == IF rs.t_limit > 0
                     THEN check_if_time_limit_exceeded(now, time_limit, start_time_ms)
                     ELSE "pass"
            IN  IF c = "pass"
                THEN /\ pc' = "rs_probe"
                     /\ rs' = [rs EXCEPT !.checks = rs.checks + 1]
                ELSE /\ pc' = "done"
                     /\ rs' = [rs EXCEPT !.checks = rs.checks + 1, !.outcome = c,
                                         !.exit = "check"]
    /\ UNCHANGED <<now, time_limit, start_time_ms, w, rt, sh, sl, tr, hs>>

\* The rest of an iteration: the script is run; WebDriverException and
\* "complete" return True after a short sleep, any other state breaks out
\* at the stop time (`return False`) or sleeps in state_message and goes on.
ReadyProbe(ready_state, lat) ==
    /\ pc = "rs_probe"
    /\ LET t == now + lat
           seen == [rs EXCEPT !.probes = rs.probes + 1, !.last = ready_state]
       IN  IF ready_state = "WebDriverException"
           THEN /\ rs' = [seen EXCEPT !.outcome = "True", !.exit = "return"]
                /\ now' = t + ReadyErrorSleepMs
                /\ pc' = "done"
           ELSE IF ready_state = "complete"
           THEN /\ rs' = [seen EXCEPT !.outcome = "True", !.exit = "return"]
                /\ now' = t + ReadyDoneSleepMs
                /\ pc' = "done"
           ELSE IF StopReached(t, rs.stop_ms)
           THEN /\ rs' = [seen EXCEPT !.outcome = "False", !.exit = "break"]
                /\ now' = t
                /\ pc' = "done"
           ELSE /\ rs' = [seen EXCEPT !.sleeps = rs.sleeps + 1, !.x = rs.x + 1]
                /\ now' = t + SleepMs(rs.timeout)
                /\ pc' = "rs_loop"
    /\ UNCHANGED <<time_limit, start_time_ms, w, rt, sh, sl, tr, hs>>

ReadyNext ==
    \/ pc = "idle" /\ \E timeout \in 1..MaxTimeout, error \in {"KeyError", "TypeError"} :
                        wait_for_ready_state_complete(timeout, error)
    \/ ReadyLoopTop
    \/ pc = "rs_probe" /\ \E ready_state \in ReadyStates, lat \in Latencies :
                            ReadyProbe(ready_state, lat)

ReadySpec == ReadyInit /\ [][ReadyNext]_vars

Next ==
    \/ pc = "idle" /\ \E call \in WaitCalls : StartWait(call[1], call[2])
    \/ LoopExit
    \/ CheckTimeLimit
    \/ pc = "probe" /\ \E r \in ObservedResponses(w.cond), lat \in Latencies :
                         Probe(r, lat)

Spec == Init /\ [][Next]_vars

\* ================================================================= claims
\* The instant the Deadline passes, and the time a finished wait took.
Deadline == start_time_ms + time_limit * MsPerSecond
Elapsed == now - w.start_ms
WaitDone == pc = "done" /\ w.cond \in Conditions
\* Every probe of the finished wait was a soft failure: it ended at the
\* deadline check, at the break, or with the range used up.
NeverSatisfied == w.exit \in {"check", "break", "range"}
\* One polling interval of a wait: a fifth of its timeout.
PollingInterval == (w.timeout * MsPerSecond) \div 5

\* C1: a wait of any condition whose Deadline expires strictly before its
\* local timeout, and whose condition is never satisfied, ends with
\* TimeLimitExceededException (Cancelled), never with TimeoutException.
C1_CancellationPrecedence ==
    (WaitDone /\ time_limit # 0 /\ Deadline < w.stop_ms /\ NeverSatisfied)
        => w.outcome = "TimeLimitExceededException"

\* C2: whenever the deadline check finds the current time past start time
\* plus limit, the exception it raises is TimeLimitExceededException and no
\* other type.
C2_DeadlineCheckRaisesTimeLimitExceeded ==
    (WaitDone /\ w.exit = "check") => w.outcome = "TimeLimitExceededException"

\* C3 (as claimed): with no Deadline and a timeout T > 0, a wait whose
\* condition is false on every probe ends with TimeoutException after at
\* least T and at most T plus one polling interval.
C3_BoundedDuration ==
    (WaitDone /\ time_limit = 0 /\ w.timeout > 0 /\ NeverSatisfied)
        => /\ w.outcome = "TimeoutException"
           /\ Elapsed >= w.timeout * MsPerSecond
           /\ Elapsed <= w.timeout * MsPerSecond + PollingInterval

\* C3 (amended): with no Deadline and a timeout T > 0, a wait whose
\* condition is false on every probe ends with TimeoutException after at
\* least T and less than T plus one polling interval plus the round trip of
\* its last probe.
C3_BoundedDurationWithProbe ==
    (WaitDone /\ time_limit = 0 /\ w.timeout > 0 /\ NeverSatisfied)
        => /\ w.outcome = "TimeoutException"
           /\ Elapsed >= w.timeout * MsPerSecond
           /\ Elapsed < w.timeout * MsPerSecond + PollingInterval + w.lastLatency

\* A never-satisfied wait without Deadline that timed out later than T plus
\* one polling interval, its last probe having taken time.
C3_Witness ==
    /\ WaitDone /\ time_limit = 0 /\ w.timeout > 0 /\ w.exit = "break"
    /\ w.outcome = "TimeoutException"
    /\ w.lastLatency > 0
    /\ Elapsed > w.timeout * MsPerSecond + PollingInterval

\* C4: a wait called with a timeout of zero performs exactly one probe, does
\* not sleep, and returns Satisfied or TimedOut according to that probe.
C4_ZeroTimeoutSingleProbe ==
    (WaitDone /\ w.timeout = 0)
        => /\ w.probes = 1
           /\ w.sleeps = 0
           /\ w.outcome \in {"Satisfied", "TimeoutException"}

\* C5: in a Present, Visible, Interactable or Disabled wait, a probe that
\* finds the element not present, stale, not visible or disabled ends the
\* wait only with TimeoutException and only once the timeout has elapsed;
\* before that the loop sleeps, has iterations left, and, unless the
\* Deadline has expired, probes again.
SoftFailures ==
    {"NoSuchElementException", "StaleElementReferenceException",
     "ElementNotVisibleException", "ElementNotInteractableException"}
C5_SoftFailStep ==
    (/\ pc = "probe"
     /\ w'.probes = w.probes + 1
     /\ w.cond \in {"Present", "Visible", "Interactable", "Disabled"}
     /\ w'.last \in SoftFailures)
        => \/ /\ pc' = "loop"
              /\ w'.outcome = "-"
              /\ w'.sleeps = w.sleeps + 1
              /\ now' - PollingInterval < w.stop_ms
              /\ w'.x < w.timeout * 10
           \/ /\ pc' = "done"
              /\ w'.outcome = "TimeoutException"
              /\ now' >= w.stop_ms
C5_ProbesAgain ==
    (/\ pc = "loop"
     /\ w.sleeps > 0
     /\ ~(time_limit # 0 /\ now > Deadline))
        => pc' = "probe"
C6_SessionErrorPropagates ==
    w.sessionError
        => /\ pc = "done"
           /\ w.exit = "raise"
           /\ w.outcome = "NoSuchWindowException"

\* C7 (as claimed): with max tries n >= 1 and func raising a matching
\* exception on every call, func is called exactly n times, the wrapper
\* sleeps exactly n-1 times, and re-raises the exception of the n-th call.
RetryDone == pc = "done" /\ rt.attempt_number >= 1
C7_ExactlyNCalls ==
    (RetryDone /\ rt.tries >= 1 /\ rt.outcome = "raise")
        => /\ rt.calls = rt.tries
           /\ rt.sleeps = rt.tries - 1
           /\ rt.raisedBy = rt.tries

\* C7 (amended): with max tries n >= 1 and func raising a matching exception
\* on every call, func is called at most n times, the wrapper sleeps once
\* between two calls and re-raises the exception of the last call; it stops
\* before the n-th call only when the time since the first attempt exceeds
\* the overall timeout at a caught failure.
C7_NCallsUnlessTimeout ==
    (RetryDone /\ rt.tries >= 1 /\ rt.outcome = "raise")
        => /\ rt.calls <= rt.tries
           /\ rt.sleeps = rt.calls - 1
           /\ rt.raisedBy = rt.calls
           /\ rt.calls < rt.tries => rt.lastElapsed > rt.timeout_ms

\* A wrapper with three tries that re-raised after the third failing call.
C7_Witness ==
    /\ RetryDone
    /\ rt.tries = 3 /\ rt.outcome = "raise"
    /\ rt.calls = 3 /\ rt.sleeps = 2 /\ rt.raisedBy = 3

\* C8: an exception of func outside the configured set leaves the wrapper
\* at once: it is the outcome, and neither a sleep nor a call follows it.
C8_NonMatchingPropagates ==
    (rt.last = "other")
        => /\ pc = "done"
           /\ rt.outcome = "other"
           /\ rt.raisedBy = rt.calls
           /\ rt.sleeps = rt.calls - 1

\* A non-matching exception on a second call, with tries remaining.
C8_Witness ==
    /\ pc = "done"
    /\ rt.outcome = "other"
    /\ rt.calls = 2
    /\ rt._tries > 1

\* C9 (as claimed): with a maximum delay set, every delay slept between two
\* attempts is at most that maximum.
MaxDelayOf == CHOOSE m \in rt.max_delay : TRUE
C10_TimeoutStopsRetry ==
    (rt.last = "matching" /\ rt.lastElapsed > rt.timeout_ms)
        => /\ pc = "done"
           /\ rt.outcome = "raise"
           /\ rt.raisedBy = rt.calls
           /\ rt.sleeps = rt.calls - 1

\* A wrapper that gave up on the overall timeout with tries remaining.
C10_Witness ==
    /\ pc = "done"
    /\ rt.outcome = "raise"
    /\ rt.lastElapsed > rt.timeout_ms
    /\ rt._tries > 0

\* C16: when a Visible, Interactable or Disabled wait times out and some
\* probe found the element, the state its TimeoutException names is the
\* soft-fail reason of the last probe of the wait.
SoftReason(out) ==
    CASE out = "StaleElementReferenceException" -> "stale"
      [] out = "ElementNotVisibleException" -> "hidden"
      [] out = "ElementNotInteractableException" -> "disabled"
      [] out = "ValueError" -> "enabled"
      [] OTHER -> "not present"
TimedOutWait ==
    /\ WaitDone
    /\ w.cond \in {"Visible", "Interactable", "Disabled"}
    /\ w.outcome = "TimeoutException"
C16_LastReasonReported ==
    (/\ TimedOutWait
     /\ w.found
     /\ w.last \in {"StaleElementReferenceException", "ElementNotVisibleException",
                    "ElementNotInteractableException", "ValueError"})
        => w.state = SoftReason(w.last)

\* C17: when a Visible, Interactable or Disabled wait times out, its
\* TimeoutException names the state 'not present' if and only if no probe
\* of the wait found the element, in sel4.core.page_actions and in the copy
\* of the wait in sel4.core.helpers.element_actions.
C17_NotPresentIffNeverFound ==
    TimedOutWait
        => /\ (w.state = "not present") <=> ~w.found
           /\ (w.helpers_state = "not present") <=> ~w.found

\* C18: a NotVisible wait returns Satisfied on the first probe in which the
\* element is not found, is reported stale, or is found but not displayed.
C18_NotVisibleSatisfied ==
    (/\ w.cond = "NotVisible"
     /\ w.probes >= 1
     /\ \/ w.resp.find = "NoSuchElementException"
        \/ w.resp.displayed \in {"False", "StaleElementReferenceException"})
        => /\ pc = "done"
           /\ w.outcome = "Satisfied"

\* C19: for an element that is found, displayed, carries the disabled
\* attribute and would report is_enabled true, a Disabled wait is Satisfied
\* on that probe; an Interactable wait is not Satisfied on a probe whose
\* element carries the attribute.
C19_DisabledAttributePrecedence ==
    /\ (/\ w.cond = "Disabled"
        /\ w.probes >= 1
        /\ w.resp.find = "element"
        /\ w.resp.displayed = "True"
        /\ w.resp.disabled = "True"
        /\ w.resp.enabled = "True")
           => /\ pc = "done"
              /\ w.outcome = "Satisfied"
    /\ (/\ w.cond = "Interactable"
        /\ w.probes >= 1
        /\ w.resp.disabled = "True")
           => w.outcome # "Satisfied"

C21_StaleThenVisible ==
    /\ (/\ w.cond = "Visible"
        /\ w.timeout = ScenarioTimeout
        /\ time_limit = 0
        /\ w.probes = 1
        /\ w.last = "StaleElementReferenceException")
           => /\ pc \in {"loop", "probe"}
              /\ w.outcome = "-"
              /\ w.sleeps = 1
    /\ (/\ w.cond = "Visible"
        /\ w.timeout = ScenarioTimeout
        /\ w.is_stale
        /\ w.probes = 2
        /\ w.resp.displayed = "True")
           => /\ pc = "done"
              /\ w.outcome = "Satisfied"
              /\ w.exit = "return"
              /\ w.sleeps = 1

\* The 5 second Visible wait back with the element after a stale first
\* probe, one sleep and a second probe.
C21_Witness ==
    /\ pc = "done"
    /\ w.cond = "Visible"
    /\ w.timeout = ScenarioTimeout
    /\ w.outcome = "Satisfied"
    /\ w.is_stale
    /\ w.probes = 2
    /\ w.sleeps = 1

\* Whether the page state a probe met satisfies the condition waited for.
ConditionHolds(cond, r) ==
    CASE cond = "Present" -> r.find = "element"
      [] cond = "Absent" -> r.find = "NoSuchElementException"
      [] cond = "Visible" -> r.displayed = "True"
      [] cond = "NotVisible" ->
            \/ r.find = "NoSuchElementException"
            \/ r.displayed \in {"False", "StaleElementReferenceException"}
      [] cond = "Interactable" ->
            r.displayed = "True" /\ r.disabled = "False" /\ r.enabled = "True"
      [] cond = "Disabled" ->
            r.displayed = "True" /\ (r.disabled = "True" \/ r.enabled = "False")

\* C22: a wait whose condition is satisfied by what its first probe meets
\* returns Satisfied having made exactly one probe and no sleep.
C22_ImmediateSuccess ==
    (w.cond \in Conditions /\ w.probes = 1 /\ ConditionHolds(w.cond, w.resp))
        => /\ pc = "done"
           /\ w.outcome = "Satisfied"
           /\ w.exit = "return"
           /\ w.sleeps = 0

\* C24: once an active Deadline has passed while a wait is polling, no new
\* probe begins and the wait's next step hands control back to the caller;
\* the time it does so is past the Deadline by at most the round trip of its
\* last probe plus one polling interval.
DeadlinePassedInWait ==
    /\ w.cond \in Conditions
    /\ time_limit # 0
    /\ Deadline >= w.start_ms
    /\ now > Deadline
C24_State ==
    DeadlinePassedInWait
        => /\ pc \in {"loop", "done"}
           /\ now - Deadline <= w.lastLatency + PollingInterval
C24_Step ==
    (pc = "loop" /\ DeadlinePassedInWait) => (pc' = "done" /\ now' = now)
C24_CancellationLatency == []C24_State /\ [][C24_Step]_vars

\* A wait stopped at the deadline check after a probe that began at the
\* Deadline, took time, and was followed by a full sleep.
C24_Witness ==
    /\ WaitDone
    /\ w.exit = "check"
    /\ DeadlinePassedInWait
    /\ w.lastLatency > 0
    /\ now - Deadline = w.lastLatency + PollingInterval

\* C25: no step of a wait, of its probes, of a shadow resolution or of a
\* retry call writes the Deadline store: the time limit and the start time
\* in the runtime store are after each step what they were before it,
\* whatever the step's outcome.
C25_Step ==
    /\ time_limit' = time_limit
    /\ start_time_ms' = start_time_ms
C25_DeadlineStoreUntouched == [][C25_Step]_vars

\* A wait that ran under the longest Deadline, read the store at several
\* checks and was ended by the last of them, the store as it was set.
C25_Witness ==
    /\ WaitDone
    /\ w.exit = "check"
    /\ w.checks >= 3
    /\ w.probes >= 2
    /\ time_limit = MaxTimeLimit
    /\ start_time_ms = 0

\* C23: a harness sleep called while a Deadline is active checks the
\* Deadline at its sleep steps, and when the Deadline passes a step or more
\* before the sleep is due to end it raises TimeLimitExceededException
\* instead of sleeping the whole duration.
SleepDone == pc = "done" /\ sl.seconds_ms > 0
C23_SleepChecksDeadline ==
    (/\ SleepDone
     /\ time_limit # 0
     /\ Deadline >= sl.start_ms
     /\ Deadline + SleepStepMs < sl.start_ms + sl.seconds_ms)
        => /\ sl.checks >= 1
           /\ sl.outcome = "TimeLimitExceededException"
           /\ sl.slept_ms < sl.seconds_ms

\* C26: in every iteration of every wait the queries on the element go to
\* the handle that the lookup of that same iteration returned: after each
\* probe, the handle queried (if any) is the one found by that probe, never
\* one held from an earlier iteration.
C26_FreshLookupEachProbe ==
    (w.cond \in Conditions /\ w.probes >= 1)
        => /\ w.queried \in {0, w.probes}
           /\ w.queried # 0 => (w.handle = w.probes /\ w.resp.find = "element")
           /\ w.resp.find # "element" => w.queried = 0

\* An Interactable wait whose third probe queried the element it had just
\* looked up, an earlier probe having met a stale element.
C26_Witness ==
    /\ w.cond = "Interactable"
    /\ w.is_stale
    /\ w.probes = 3
    /\ w.handle = 3
    /\ w.queried = 3

\* C27: with tries = -1 the wrapper never runs out of tries: the count never
\* reaches zero, a matching failure met within the overall timeout is
\* followed by a sleep and another call, the wrapper re-raises only when
\* the overall timeout is exceeded, and the first call that succeeds ends
\* it with func's result.
C27_UnboundedTries ==
    (rt.tries = -1 /\ rt.attempt_number >= 1)
        => /\ rt._tries < 0
           /\ rt.outcome # "None"
           /\ rt.outcome = "raise" => rt.lastElapsed > rt.timeout_ms
           /\ (rt.last = "matching" /\ rt.lastElapsed <= rt.timeout_ms)
                 => (pc = "retry" /\ rt.outcome = "-" /\ rt.sleeps = rt.calls)
           /\ rt.last = "return"
                 => (pc = "done" /\ rt.outcome = "return" /\ rt.sleeps = rt.calls - 1)

\* An unbounded wrapper that returned func's result on the call after
\* MaxTries matching failures, having slept after each of them.
C27_Witness ==
    /\ rt.tries = -1
    /\ pc = "done"
    /\ rt.outcome = "return"
    /\ rt.calls = MaxTries + 1
    /\ rt.sleeps = MaxTries

\* C28: the first delay slept is the initial delay; each later delay slept
\* is the delay slept before it times the backoff multiplier, plus the
\* jitter (the fixed amount, or a value of the (min, max) range), cut down
\* to the maximum delay when one is set.
C28_Step ==
    (rt'.sleeps = rt.sleeps + 1)
        => /\ rt.sleeps = 0 => rt'.lastSlept = rt.delay
           /\ rt.sleeps >= 1 =>
                \E j \in JitterValues(rt.jitter) :
                    LET raw == rt.lastSlept * rt.backoff + j
                    IN  rt'.lastSlept = IF rt.max_delay = {} THEN raw
                                        ELSE IF raw <= MaxDelayOf THEN raw ELSE MaxDelayOf
C28_DelaySequence == [][C28_Step]_vars

\* A second sleep of the first delay doubled plus a jitter of one tick,
\* no maximum set.
C28_Witness ==
    /\ rt.sleeps = 2
    /\ rt.max_delay = {}
    /\ rt.delay > 0
    /\ rt.backoff = 2
    /\ rt.jitter = <<Tick>>
    /\ rt.lastSlept = rt.delay * 2 + Tick

\* C29: a Disabled probe whose element is found, displayed and carries the
\* disabled attribute (the session still there) is Satisfied, and no
\* is_enabled query is sent to the session in that probe.
C29_AttributeShortCircuits ==
    (/\ w.cond = "Disabled"
     /\ w.probes >= 1
     /\ w.resp.find = "element"
     /\ w.resp.displayed = "True"
     /\ w.resp.disabled = "True"
     /\ ~w.sessionError)
        => /\ pc = "done"
           /\ w.outcome = "Satisfied"
           /\ ~w.enabled_queried

\* C30: the CSS the translator returns never holds the child combinator:
\* the pieces of consecutive nodes are joined by a single space, whether the
\* step was written with "/" or with "//".
TranslationDone == pc = "done" /\ tr.outcome = "css"
C30_NoChildCombinator ==
    TranslationDone => \A i \in 1..Len(tr.css) : tr.css[i] # ">"

\* C31: a translation of an XPath with a predicate outside the grammar
\* ("or" between two tests, a position() test) ends in XpathException and
\* hands no CSS back.
Unsupported(xpath) == \E i \in 1..Len(xpath) : xpath[i].pred \in {"or", "position"}
C31_UnsupportedIsRefused ==
    (pc = "done" /\ tr.input # <<>> /\ Unsupported(tr.input))
        => tr.outcome = "XpathException" /\ tr.css = <<>>

\* C32: the CSS written for a locator is '#value' for Id, '.value' for
\* ClassName, '[name="value"]' for Name, 'a:contains("value")' for LinkText
\* and PartialLinkText, and the value itself for Css and TagName.
C32_ByStrategy ==
    (pc = "done" /\ tr.how \notin {"-", "xpath", "other"})
        => /\ tr.outcome = "css"
           /\ tr.how = "id" => tr.css = <<"#">> \o tr.selector
           /\ tr.how = "class name" => tr.css = <<".">> \o tr.selector
           /\ tr.how = "name" => tr.css = <<"[name=\"">> \o tr.selector \o <<"\"]">>
           /\ tr.how \in {"link text", "partial link text"}
                => tr.css = <<"a:contains(\"">> \o tr.selector \o <<"\")">>
           /\ tr.how \in {"css selector", "tag name"} => tr.css = tr.selector
C32_Witness ==
    /\ pc = "done"
    /\ tr.how = "tag name"
    /\ tr.selector = <<"a", " ", "b">>
    /\ tr.css = tr.selector

\* C34: the diagnostic of a wait that timed out names the state that
\* matches the reason it failed, out of not present, hidden, disabled, not
\* present on DOM (stale), still visible, still enabled, still present: in
\* the text get_exception_message returns and in the text the helpers
\* write in place.
FailedState(cond, is_present, is_stale, is_displayed) ==
    CASE cond = "Absent" -> "still present"
      [] cond = "NotVisible" -> "still visible"
      [] ~is_present -> "not present"
      [] is_stale -> "not present on DOM (stale)"
      [] cond = "Present" -> "not present"
      [] cond = "Visible" \/ ~is_displayed -> "hidden"
      [] cond = "Interactable" -> "disabled"
      [] OTHER -> "still enabled"
C34_DiagnosticNamesState ==
    (WaitDone /\ w.outcome = "TimeoutException")
        => LET state == FailedState(w.cond, w.is_present, w.is_stale, w.is_displayed)
           IN  /\ w.message # {}
               /\ w.helpers_state = state

\* C33: the four XPaths of one step are translated to div#x, .a.b,
\* a:contains("Sign in") and button[type="submit"]:nth-of-type(2), the last
\* from inside the grouping "(...)[2]".
Literal(pred) ==
    CASE pred = "id" -> <<"div", "#", "x">>
      [] pred = "class" -> <<".", "a", ".", "b">>
      [] pred = "contains_sign_in" -> <<"a", ":contains(\"", "Sign", " ", "in", "\")">>
      [] pred = "type" ->
            <<"button", "[", "type", "=\"", "submit", "\"]", ":nth-of-type(", "2", ")">>
      [] OTHER -> <<>>
C33_LiteralOutputs ==
    (pc = "done" /\ <<tr.input, tr.group>> \in Examples)
        => tr.outcome = "css" /\ tr.css = Literal(tr.input[1].pred)
C33_Witness ==
    /\ pc = "done"
    /\ <<tr.input, tr.group>> \in Examples
    /\ tr.group = {"2"}
    /\ tr.css = Literal("type")

\* C36: whatever the number of tries, 0 included, the retry wrapper has
\* called func at least once when it returns or raises.
C36_CalledAtLeastOnce == RetryDone => rt.calls >= 1

\* C35: wait_for_ready_state_complete leaves with True or with False,
\* with or without a Deadline in the store, unless the Deadline itself has
\* passed; and it leaves with True when the page answers "complete".
ReadyDone == pc = "done" /\ rs.timeout > 0
C35_ReadyNeverRaises ==
    ReadyDone
        => /\ \/ rs.outcome \in {"True", "False"}
              \/ /\ time_limit # 0
                 /\ now > start_time_ms + time_limit * MsPerSecond
           /\ rs.last = "complete" => rs.outcome = "True"

\* C37: a call of click, wait_for_element_visible or
\* wait_for_element_present without a timeout hands its poll loop the
\* default get_timeout computes, a number above 0.
C37_DefaultTimeoutReachesLoop ==
    (pc = "called" /\ hs.timeout = {})
        => /\ hs.loop_timeout = {hs.computed}
           /\ hs.computed > 0

\* C38: a link text wait that ends on a probe which found no link text
\* ends with TimeoutException, and not before its stop time.
LinkDone == pc = "done" /\ w.cond \in LinkWaits
C38_LinkWaitKeepsProbing ==
    (LinkDone /\ w.last = "ValueError")
        => /\ w.outcome = "TimeoutException"
           /\ now >= w.stop_ms

\* C39: after set_time_limit(x) with x above 0 the call has returned and
\* the store holds a limit under the Deadline key; after set_time_limit
\* with None, 0 or a number below 0 the call has returned, the store holds
\* nothing under that key, and a deadline check passes.
C39_SetTimeLimit ==
    hs.setup # "-"
        => /\ hs.setup = "returned"
           /\ IF \E x \in hs.limit : x > 0
              THEN hs.store = "limit"
              ELSE hs.store = "absent" /\ hs.check \in {"-", "pass"}

\* A chain string the resolver is to refuse: no delimiter in it, or the
\* delimiter at its end.
Malformed(s) == ~ContainsDelimiter(s) \/ s[Len(s)] \in {"D", "T"}
ShadowDone == pc = "done" /\ sh.selector # <<>>
ShadowTimedOut == ShadowDone /\ sh.error \in {"not present", "not visible"}

\* C11: for every chain string without a delimiter, and every chain string
\* that ends on the delimiter (earlier well-formed delimiters or not), the
\* resolver ends with an error and never returns an element.
C11_MalformedChainRejected ==
    (ShadowDone /\ Malformed(sh.selector)) => sh.outcome # "element"

\* C12: when the resolver rejects a malformed chain string, no remote call
\* (ready-state query, lookup, shadow-root access) has been made before.
C12_RejectedBeforeRemoteCall ==
    (ShadowDone /\ Malformed(sh.selector) /\ sh.error = "no delimiter")
        => sh.remote_calls = 0

\* C13: the Deadline is checked on every polling attempt of the resolver,
\* so no lookup is made once it has passed, and a resolution begun under a
\* Deadline that expires before the local timeout does not end as a
\* not-present or not-visible timeout.
C13_ShadowWaitCancelled ==
    (/\ sh.selector # <<>>
     /\ time_limit # 0
     /\ Deadline >= sh.start_ms
     /\ Deadline < sh.start_ms + sh.timeout_ms)
        => /\ ~sh.late
           /\ ShadowTimedOut => sh.outcome = "TimeLimitExceededException"

\* C14: when no read of the host's shadow root gives a root, the resolver
\* has read it, read it once more after one sleep of the fixed delay, and
\* fails with 'no shadow root' naming the chain up to the host, without a
\* lookup for the segment.
C14_NoShadowRootAfterOneRetry ==
    (ShadowDone /\ sh.part >= 2 /\ sh.part <= Len(sh.selectors) /\ sh.lookups = 0)
        => /\ sh.error = "no shadow root"
           /\ sh.outcome = "Exception"
           /\ sh.reads = 2
           /\ sh.root_sleeps = 1
           /\ sh.chain = sh.part - 1

\* C15: with must_be_visible set, a resolution that runs out of attempts
\* on a segment fails as 'not visible' if and only if some attempt for that
\* segment found an element, and as 'not present' otherwise.
C15_NotVisibleIffFoundForSegment ==
    (ShadowTimedOut /\ sh.must_be_visible)
        => /\ (sh.error = "not visible") <=> sh.found_here
           /\ (sh.error = "not present") <=> ~sh.found_here

====
